---- MODULE Spec2Model ----
(***************************************************************************)
(* A model of the solc-typed-ast core: AST node objects living in an       *)
(* ASTContext, the ASTNodeFactory that creates and copies them, the        *)
(* ContractDefinition / ErrorDefinition node classes and the structural    *)
(* sanity checker (checkSane / isSane).                                    *)
(*                                                                         *)
(* Node objects are heap cells; a node handle is an index into heap, and   *)
(* handle 0 stands for undefined.  Ids are positive integers; id 0 stands  *)
(* for null / an absent reference.                                         *)
(***************************************************************************)
EXTENDS Integers, Sequences, FiniteSets, TLC

\* Number of node objects a run may allocate.
MaxNodes == 3

\* Number of node objects the copies of a run may add.
MaxClones == 2

\* Heap cells a run may hold once copies are counted.
MaxHeap == MaxNodes + MaxClones

\* Ids that can occur: the factory hands out 1..MaxHeap, MaxHeap + 1 is an
\* id that is never assigned (a dangling reference).
MaxId == MaxHeap + 1

\* Number of nodes a run may take out of the context.
MaxUnregistered == 1

VARIABLES
    heap,       \* sequence of node objects, indexed by handle
    map,        \* ASTContext.map: id -> handle (0 when the id is not registered)
    lastId,     \* ASTNodeFactory.lastId
    res,        \* outcome of the last checkSane / isSane / copy / merge call
    other,      \* the map of a second ASTContext: id -> handle (0 when absent)
    proc,       \* the child process and the promise of a NativeCompiler.compile call
    cache          \* the compiler cache and the getCompilerForVersion calls on it

vars == <<heap, map, lastId, res, other, proc, cache>>

Handles == 1..Len(heap)
Ids == 1..MaxId

----------------------------------------------------------------------------
(* Node variants *)

SourceUnit == "SourceUnit"
ContractDefinition == "ContractDefinition"
StructuredDocumentation == "StructuredDocumentation"
VariableDeclaration == "VariableDeclaration"
Identifier == "Identifier"
ErrorDefinition == "ErrorDefinition"
ParameterList == "ParameterList"
StructDefinition == "StructDefinition"
ImportDirective == "ImportDirective"
PragmaDirective == "PragmaDirective"
ElementaryTypeName == "ElementaryTypeName"
EnumDefinition == "EnumDefinition"
EnumValue == "EnumValue"
VariableDeclarationStatement == "VariableDeclarationStatement"
Literal == "Literal"
WhileStatement == "WhileStatement"
BinaryOperation == "BinaryOperation"
FunctionDefinition == "FunctionDefinition"
EventDefinition == "EventDefinition"
Block == "Block"
ExpressionStatement == "ExpressionStatement"
OverrideSpecifier == "OverrideSpecifier"

\* Variants whose children are a private ordered list (ASTNodeWithChildren).
ContainerTypes == {SourceUnit, ContractDefinition, ParameterList}

\* Variants checkSane skips: no children, no references.
LeafTypes == {PragmaDirective, StructuredDocumentation, EnumValue, ElementaryTypeName}

isType(h, t) == h # 0 /\ heap[h].type = t

(* Values of a `documentation` attribute: undefined, a string, or a node. *)
DocUndefined == [kind |-> "undefined", node |-> 0, text |-> ""]
DocStr(t) == [kind |-> "string", node |-> 0, text |-> t]
DocNode(h) == [kind |-> "node", node |-> h, text |-> ""]

\* The documentation strings callers pass.
DocTexts == {"doc string"}

\* A node object with every attribute at its default.
BlankNode(type, id) ==
    [ type |-> type, id |-> id, parent |-> 0,
      ownChildren |-> <<>>,             \* ASTNodeWithChildren.ownChildren
      docString |-> DocUndefined,       \* ContractDefinition.docString
      documentation |-> DocUndefined,   \* stored documentation field
      name |-> "",
      scope |-> 0, sourceUnit |-> 0, referencedDeclaration |-> 0,
      linearizedBaseContracts |-> <<>>, usedErrors |-> <<>>,
      exportedSymbols |-> {},           \* set of [name, id]
      vParameters |-> 0, vType |-> 0, vValue |-> 0,
      vMembers |-> <<>>,
      assignments |-> <<>>,             \* ids, 0 for null
      vDeclarations |-> <<>>, vInitialValue |-> 0,
      vCondition |-> 0, vBody |-> 0,
      vLeftExpression |-> 0, vRightExpression |-> 0,
      vOverrideSpecifier |-> 0, vReturnParameters |-> 0 ]

Range(s) == { s[i] : i \in DOMAIN s }

----------------------------------------------------------------------------
(* ASTContext *)

locate(id) == IF id \in DOMAIN map THEN map[id] ELSE 0

contains(h) == h # 0 /\ locate(heap[h].id) = h

----------------------------------------------------------------------------
(* Structural children and views *)

\* ASTNode.pickNodes: the arguments that are nodes, in order.
pickNodes(args) == SelectSeq(args, LAMBDA a : a # 0)

\* OwnChildren of h that are instances of variant t, in order.
filterOwn(h, t) == SelectSeq(heap[h].ownChildren, LAMBDA c : heap[c].type = t)

\* ContractDefinition.documentation (getter)
documentation(h) ==
    IF heap[h].docString.kind # "undefined"
    THEN heap[h].docString
    ELSE LET docs == filterOwn(h, StructuredDocumentation)
         IN  IF docs = <<>> THEN DocUndefined ELSE DocNode(docs[1])

\* The documentation attribute of any node: a getter on ContractDefinition,
\* a stored field elsewhere.
docOf(h) ==
    IF heap[h].type = ContractDefinition THEN documentation(h)
    ELSE heap[h].documentation

docNodeOf(h) == IF docOf(h).kind = "node" THEN docOf(h).node ELSE 0

\* ASTNode.children
\* Variant of statementChildren that lists the initial value first.
statementChildrenValueFirst(h) ==
    pickNodes(<<heap[h].vInitialValue>> \o heap[h].vDeclarations)

\* VariableDeclarationStatement.children
statementChildren(h) ==
    pickNodes(heap[h].vDeclarations \o <<heap[h].vInitialValue>>)

\* Variant of definitionChildren that lists the parameters first.
definitionChildrenParametersFirst(h) ==
    pickNodes(<<heap[h].vParameters, docNodeOf(h)>>)

\* ErrorDefinition.children, EventDefinition.children
definitionChildren(h) ==
    pickNodes(<<docNodeOf(h), heap[h].vParameters>>)

children(h) ==
    CASE heap[h].type \in ContainerTypes -> heap[h].ownChildren
      [] heap[h].type \in {ErrorDefinition, EventDefinition} -> definitionChildren(h)
      [] heap[h].type = WhileStatement ->
            pickNodes(<<heap[h].vCondition, heap[h].vBody>>)
      [] heap[h].type = BinaryOperation ->
            pickNodes(<<heap[h].vLeftExpression, heap[h].vRightExpression>>)
      [] heap[h].type = FunctionDefinition ->
            pickNodes(<<heap[h].vParameters, heap[h].vOverrideSpecifier,
                        heap[h].vReturnParameters, heap[h].vBody>>)
      [] heap[h].type = VariableDeclaration ->
            pickNodes(<<docNodeOf(h), heap[h].vType, heap[h].vValue>>)
      [] heap[h].type \in {StructDefinition, EnumDefinition} -> heap[h].vMembers
      [] heap[h].type = VariableDeclarationStatement -> statementChildren(h)
      [] OTHER -> <<>>

RECURSIVE Flatten(_)
Flatten(ss) == IF ss = <<>> THEN <<>> ELSE Head(ss) \o Flatten(Tail(ss))

\* ASTNode.getChildren(inclusive = true): the subtree in pre-order.
RECURSIVE getChildren(_)
getChildren(h) ==
    <<h>> \o Flatten([i \in DOMAIN children(h) |-> getChildren(children(h)[i])])

\* ContractDefinition.vScope (getter)
vScope(h) == locate(heap[h].scope)

\* ContractDefinition.vLinearizedBaseContracts
vLinearizedBaseContracts(h) ==
    [i \in DOMAIN heap[h].linearizedBaseContracts |->
        locate(heap[h].linearizedBaseContracts[i])]

\* ContractDefinition.vUsedErrors
vUsedErrors(h) ==
    [i \in DOMAIN heap[h].usedErrors |-> locate(heap[h].usedErrors[i])]

\* ErrorDefinition.vScope (also EnumDefinition): the parent
vScopeParent(h) == heap[h].parent

\* ImportDirective.vSourceUnit
vSourceUnit(h) == locate(heap[h].sourceUnit)

\* Identifier.vReferencedDeclaration
vReferencedDeclaration(h) == locate(heap[h].referencedDeclaration)

\* SourceUnit.vExportedSymbols: name -> node, as a set of [name, node]
vExportedSymbols(h) ==
    { [name |-> s.name, node |-> locate(s.id)] : s \in heap[h].exportedSymbols }

----------------------------------------------------------------------------
(* The sanity checker.  A check yields Ok, or the class of the error it     *)
(* throws: InsaneASTError, or a plain Error.                                *)

Ok == "ok"
InsaneASTError == "InsaneASTError"
Error == "Error"

\* Checks run in sequence; the first one that throws decides the outcome.
FirstFailure(rs) ==
    IF \A i \in DOMAIN rs : rs[i] = Ok THEN Ok
    ELSE rs[CHOOSE i \in DOMAIN rs :
                rs[i] # Ok /\ \A j \in 1..(i - 1) : rs[j] = Ok]

(* Property values as the helpers see them: undefined, one node, an array  *)
(* of nodes (0 = an undefined element), or anything else (e.g. a string).  *)
ValUndefined == [kind |-> "undefined", node |-> 0, nodes |-> <<>>]
ValNode(h) == IF h = 0 THEN ValUndefined
              ELSE [kind |-> "node", node |-> h, nodes |-> <<>>]
ValArray(hs) == [kind |-> "array", node |-> 0, nodes |-> hs]
ValOther == [kind |-> "other", node |-> 0, nodes |-> <<>>]
ValDoc(d) == CASE d.kind = "node" -> ValNode(d.node)
               [] d.kind = "string" -> ValOther
               [] OTHER -> ValUndefined

\* inCtx, for a node and for an array of nodes
inCtx(h) == contains(h)
inCtxAll(hs) == \A i \in DOMAIN hs : inCtx(hs[i])

\* checkVFieldCtx: every failure is a plain Error
checkVFieldCtx(val) ==
    CASE val.kind = "node" -> IF inCtx(val.node) THEN Ok ELSE Error
      [] val.kind = "array" ->
            IF val.nodes = <<>> THEN Ok
            ELSE IF \E i \in DOMAIN val.nodes : val.nodes[i] = 0 THEN Error
            ELSE IF inCtxAll(val.nodes) THEN Ok ELSE Error
      [] OTHER -> Error

\* checkFieldAndVFieldMatch, field a number
checkFieldAndVFieldMatch(f, v) ==
    IF v = 0 THEN Error
    ELSE IF f # heap[v].id THEN InsaneASTError
    ELSE Ok

\* checkFieldAndVFieldMatch, field an array of numbers
checkFieldAndVFieldMatchList(fs, vs) ==
    IF Len(fs) # Len(vs) THEN InsaneASTError
    ELSE FirstFailure([i \in DOMAIN fs |->
            IF vs[i] = 0 THEN Error
            ELSE IF fs[i] # heap[vs[i]].id THEN InsaneASTError
            ELSE Ok])

\* The nodes a property value holds.
nodesOf(val) ==
    CASE val.kind = "node" -> {val.node}
      [] val.kind = "array" -> Range(val.nodes) \ {0}
      [] OTHER -> {}

\* checkDirectChildren(node, ...fields)
checkDirectChildren(h, fields) ==
    LET directChildren == Range(children(h))
        perField(val) ==
            CASE val.kind = "undefined" -> Ok
              [] val.kind = "other" -> Error
              [] OTHER -> IF nodesOf(val) \subseteq directChildren
                          THEN Ok ELSE InsaneASTError
        computedChildren == UNION { nodesOf(fields[i]) : i \in DOMAIN fields }
        coverage ==
            IF Cardinality(computedChildren \cap directChildren)
                    < Cardinality(directChildren)
            THEN InsaneASTError ELSE Ok
    IN  FirstFailure([i \in DOMAIN fields |-> perField(fields[i])] \o <<coverage>>)

\* The named relations the SourceUnit branch hands to checkDirectChildren.
sourceUnitFields(h) ==
    << ValArray(filterOwn(h, PragmaDirective)),
       ValArray(filterOwn(h, ImportDirective)),
       ValArray(filterOwn(h, ContractDefinition)),
       ValArray(filterOwn(h, EnumDefinition)),
       ValArray(filterOwn(h, StructDefinition)),
       ValArray(filterOwn(h, "FunctionDefinition")),
       ValArray(filterOwn(h, VariableDeclaration)),
       ValArray(filterOwn(h, ErrorDefinition)),
       ValArray(filterOwn(h, "UserDefinedValueTypeDefinition")) >>

\* Variant of the SourceUnit branch without the loop over exportedSymbols.
checkExportedSymbolsSkipped(h) == Ok

\* checkSane, SourceUnit branch: the loop over exportedSymbols
checkExportedSymbols(h) ==
    IF \E s \in heap[h].exportedSymbols :
            \/ locate(s.id) = 0
            \/ [name |-> s.name, node |-> locate(s.id)] \notin vExportedSymbols(h)
    THEN InsaneASTError ELSE Ok

\* checkSane, SourceUnit branch: exported symbols, then direct children
checkSourceUnit(h) ==
    FirstFailure(<< checkExportedSymbols(h),
                    checkDirectChildren(h, sourceUnitFields(h)) >>)

\* checkSane, ImportDirective branch (imports carry no symbol aliases here)
checkImportDirective(h) ==
    FirstFailure(<<
        checkFieldAndVFieldMatch(heap[h].scope, vScope(h)),
        checkVFieldCtx(ValNode(vScope(h))),
        checkFieldAndVFieldMatch(heap[h].sourceUnit, vSourceUnit(h)),
        checkVFieldCtx(ValNode(vSourceUnit(h))) >>)

\* checkSane, ParameterList branch
checkParameterList(h) ==
    FirstFailure(<<
        checkVFieldCtx(ValArray(heap[h].ownChildren)),
        checkDirectChildren(h, <<ValArray(heap[h].ownChildren)>>) >>)

\* The named relations the ContractDefinition branch hands to checkDirectChildren.
contractFields(h) ==
    << ValDoc(documentation(h)),
       ValArray(filterOwn(h, "InheritanceSpecifier")),
       ValArray(filterOwn(h, VariableDeclaration)),
       ValArray(filterOwn(h, "ModifierDefinition")),
       ValArray(filterOwn(h, ErrorDefinition)),
       ValArray(filterOwn(h, "EventDefinition")),
       ValArray(filterOwn(h, "FunctionDefinition")),
       ValArray(filterOwn(h, "UsingForDirective")),
       ValArray(filterOwn(h, StructDefinition)),
       ValArray(filterOwn(h, EnumDefinition)),
       ValArray(filterOwn(h, "UserDefinedValueTypeDefinition")),
       ValUndefined >>
    \o (IF documentation(h).kind = "node"
        THEN <<ValDoc(documentation(h))>> ELSE <<>>)

\* Variant of the ContractDefinition branch that leaves usedErrors unchecked.
checkContractDefinitionNoUsedErrors(h) ==
    FirstFailure(<<
        checkFieldAndVFieldMatch(heap[h].scope, vScope(h)),
        checkVFieldCtx(ValNode(vScope(h))),
        IF vScope(h) # heap[h].parent THEN InsaneASTError ELSE Ok,
        checkFieldAndVFieldMatchList(heap[h].linearizedBaseContracts,
                                     vLinearizedBaseContracts(h)),
        checkVFieldCtx(ValArray(vLinearizedBaseContracts(h))),
        IF documentation(h).kind = "node"
        THEN checkVFieldCtx(ValDoc(documentation(h))) ELSE Ok,
        checkDirectChildren(h, contractFields(h)) >>)

\* checkSane, ContractDefinition branch
checkContractDefinition(h) ==
    FirstFailure(<<
        checkFieldAndVFieldMatch(heap[h].scope, vScope(h)),
        checkVFieldCtx(ValNode(vScope(h))),
        IF vScope(h) # heap[h].parent THEN InsaneASTError ELSE Ok,
        checkFieldAndVFieldMatchList(heap[h].linearizedBaseContracts,
                                     vLinearizedBaseContracts(h)),
        checkVFieldCtx(ValArray(vLinearizedBaseContracts(h))),
        checkFieldAndVFieldMatchList(heap[h].usedErrors, vUsedErrors(h)),
        checkVFieldCtx(ValArray(vUsedErrors(h))),
        IF documentation(h).kind = "node"
        THEN checkVFieldCtx(ValDoc(documentation(h))) ELSE Ok,
        checkDirectChildren(h, contractFields(h)) >>)

\* The documentation part shared by the declaration branches.
docFields(h) == IF docOf(h).kind = "node" THEN <<ValDoc(docOf(h))>> ELSE <<>>
checkDocCtx(h) == IF docOf(h).kind = "node" THEN checkVFieldCtx(ValDoc(docOf(h))) ELSE Ok

\* checkSane, EnumDefinition branch
checkEnumDefinition(h) ==
    FirstFailure(<<
        checkVFieldCtx(ValNode(vScopeParent(h))),
        checkDirectChildren(h, <<ValArray(heap[h].vMembers)>>) >>)

\* The named relations of the ErrorDefinition branch.
errorFields(h) == <<ValNode(heap[h].vParameters)>> \o docFields(h)

\* checkSane, ErrorDefinition branch
checkErrorDefinition(h) ==
    FirstFailure(<<
        checkVFieldCtx(ValNode(vScopeParent(h))),
        checkDocCtx(h),
        checkDirectChildren(h, errorFields(h)) >>)

\* checkSane, StructDefinition branch
checkStructDefinition(h) ==
    FirstFailure(<<
        checkFieldAndVFieldMatch(heap[h].scope, vScope(h)),
        checkVFieldCtx(ValNode(vScope(h))),
        checkDirectChildren(h, <<ValArray(heap[h].vMembers)>>) >>)

\* The named relations of the VariableDeclaration branch: vType,
\* vOverrideSpecifier (never given here), vValue, and the documentation node.
variableFields(h) ==
    <<ValNode(heap[h].vType), ValUndefined, ValNode(heap[h].vValue)>> \o docFields(h)

\* checkSane, VariableDeclaration branch
checkVariableDeclaration(h) ==
    FirstFailure(<<
        checkFieldAndVFieldMatch(heap[h].scope, vScope(h)),
        checkVFieldCtx(ValNode(vScope(h))),
        checkDocCtx(h),
        checkDirectChildren(h, variableFields(h)) >>)

\* checkSane, Identifier / IdentifierPath branch
checkIdentifier(h) ==
    IF heap[h].referencedDeclaration # 0 /\ vReferencedDeclaration(h) # 0
    THEN FirstFailure(<<
            checkFieldAndVFieldMatch(heap[h].referencedDeclaration,
                                     vReferencedDeclaration(h)),
            checkVFieldCtx(ValNode(vReferencedDeclaration(h))) >>)
    ELSE Ok

\* The named structural relations checkSane checks for the variant of h.
namedRelations(h) ==
    CASE heap[h].type = SourceUnit -> sourceUnitFields(h)
      [] heap[h].type = ParameterList -> <<ValArray(heap[h].ownChildren)>>
      [] heap[h].type = ContractDefinition -> contractFields(h)
      [] heap[h].type \in {EnumDefinition, StructDefinition} -> <<ValArray(heap[h].vMembers)>>
      [] heap[h].type = ErrorDefinition -> errorFields(h)
      [] heap[h].type = VariableDeclaration -> variableFields(h)
      [] OTHER -> <<>>

\* The variant-specific part of the loop body of checkSane.
checkVariant(h) ==
    CASE heap[h].type \in LeafTypes -> Ok
      [] heap[h].type = SourceUnit -> checkSourceUnit(h)
      [] heap[h].type = ImportDirective -> checkImportDirective(h)
      [] heap[h].type = ParameterList -> checkParameterList(h)
      [] heap[h].type = ContractDefinition -> checkContractDefinition(h)
      [] heap[h].type = EnumDefinition -> checkEnumDefinition(h)
      [] heap[h].type = ErrorDefinition -> checkErrorDefinition(h)
      [] heap[h].type = StructDefinition -> checkStructDefinition(h)
      [] heap[h].type = VariableDeclaration -> checkVariableDeclaration(h)
      [] heap[h].type = Identifier -> checkIdentifier(h)
      [] OTHER -> Error

\* The parentage loop of checkSane over node.children.
checkParents(h) ==
    IF \E i \in DOMAIN children(h) : heap[children(h)[i]].parent # h
    THEN InsaneASTError ELSE Ok

\* The membership test that opens the loop body of checkSane.
checkMembership(h) == IF inCtx(h) THEN Ok ELSE InsaneASTError

\* One iteration of the loop of checkSane.
checkNode(h) == FirstFailure(<<checkMembership(h), checkParents(h), checkVariant(h)>>)

\* checkSane(unit, ctx): Ok when it returns, else the class of what it throws.
checkSane(unit) ==
    LET nodes == getChildren(unit)
    IN  FirstFailure([i \in DOMAIN nodes |-> checkNode(nodes[i])])

\* Variant of isSane that catches every error and answers false.
isSaneCatchAll(unit) == IF checkSane(unit) = Ok THEN "true" ELSE "false"

\* isSane(unit, ctx): "true", "false", or "throws" when it re-throws.
isSane(unit) ==
    CASE checkSane(unit) = Ok -> "true"
      [] checkSane(unit) = InsaneASTError -> "false"
      [] OTHER -> "throws"

----------------------------------------------------------------------------
(* ASTNodeFactory, ASTContext.register / unregister, ASTNodeWithChildren   *)

\* Deepest nesting of arrays and mappings in a type.
MaxDepth == 2

\* Most entries of an errors array, most files of a sources object, most
\* compiler versions a selection strategy yields.
MaxErrors == 2
MaxFiles == 2
MaxVersions == 2

\* Compiler JSON without sources and without errors.
NoData ==
    [sources |-> [kind |-> "missing", sections |-> {}],
     errors |-> [kind |-> "missing", entries |-> <<>>]]

NoOutcome ==
    [kind |-> "none", data |-> NoData, compilerVersion |-> "undefined", compilerCalls |-> 0,
     tried |-> <<>>,        \* candidate versions handed to compile(), in order
     selected |-> 0,        \* the candidate whose output is returned
     failures |-> <<>>]     \* CompileFailedError.failures

\* The compiler's JSON for a statement, as far as the reader's outcome is
\* compared with it.
NoJson == [assignments |-> <<>>, declarations |-> <<>>, initialValue |-> 0]

NoResult ==
    [op |-> "none", node |-> 0, check |-> Ok, sane |-> "true",
     clone |-> 0, lenBefore |-> 0, old |-> 0, json |-> NoJson,
     args |-> <<>>, data |-> NoData, outcome |-> NoOutcome, outs |-> <<>>,
     typeIn |-> <<>>, location |-> "undefined", specialized |-> <<>>, generalized |-> <<>>]

\* heap with the parent pointer of every node in cs set to p
Adopt(hp, cs, p) ==
    [h \in DOMAIN hp |-> IF h \in cs THEN [hp[h] EXCEPT !.parent = p] ELSE hp[h]]

\* Variant of make whose registration overwrites whatever the id named.
makeUnchecked(node, kids) ==
    LET h == Len(heap) + 1
        id == lastId + 1
    IN  /\ Len(heap) < MaxNodes
        /\ heap' = Adopt(Append(heap, [node EXCEPT !.id = id]), kids, h)
        /\ map' = [map EXCEPT ![id] = h]
        /\ lastId' = id
        /\ res' = NoResult
        /\ UNCHANGED <<other, proc, cache>>

\* ASTNodeFactory.make: a fresh id, the constructor (which makes the new node
\* the parent of the children it is given), then ASTContext.register, which
\* fails when the id is taken.
make(node, kids) ==
    LET h == Len(heap) + 1
        id == lastId + 1
    IN  /\ Len(heap) < MaxNodes
        /\ locate(id) = 0
        /\ heap' = Adopt(Append(heap, [node EXCEPT !.id = id]), kids, h)
        /\ map' = [map EXCEPT ![id] = h]
        /\ lastId' = id
        /\ res' = NoResult
        /\ UNCHANGED <<other, proc, cache>>

\* Variant of appendChild that leaves the parent pointer of the node alone.
appendChildListOnly(hp, p, c) ==
    [hp EXCEPT ![p].ownChildren = Append(@, c)]

\* ASTNodeWithChildren.appendChild
appendChild(hp, p, c) ==
    [hp EXCEPT ![p].ownChildren = Append(@, c), ![c].parent = p]

\* ASTNodeWithChildren.insertAtBeginning
insertAtBeginning(hp, p, c) ==
    [hp EXCEPT ![p].ownChildren = <<c>> \o @, ![c].parent = p]

\* ASTNodeWithChildren.removeChild
removeChild(hp, p, c) ==
    [hp EXCEPT ![p].ownChildren = SelectSeq(@, LAMBDA x : x # c), ![c].parent = 0]

\* ASTNodeWithChildren.replaceChild(newNode, oldNode)
replaceChild(hp, p, new, old) ==
    LET hp1 == [hp EXCEPT ![old].parent = 0]
    IN  [hp1 EXCEPT ![p].ownChildren = [i \in DOMAIN @ |-> IF @[i] = old THEN new ELSE @[i]],
                    ![new].parent = p]

\* Position of c in the child list of p.
indexOfChild(hp, p, c) ==
    CHOOSE i \in DOMAIN hp[p].ownChildren : hp[p].ownChildren[i] = c

\* ASTNodeWithChildren.insertBefore(node, referenceNode)
insertBefore(hp, p, c, ref) ==
    LET i == indexOfChild(hp, p, ref)
    IN  [hp EXCEPT ![p].ownChildren = SubSeq(@, 1, i - 1) \o <<c>> \o SubSeq(@, i, Len(@)),
                   ![c].parent = p]

\* ASTNodeWithChildren.insertAfter(node, referenceNode)
insertAfter(hp, p, c, ref) ==
    LET i == indexOfChild(hp, p, ref)
    IN  [hp EXCEPT ![p].ownChildren = SubSeq(@, 1, i) \o <<c>> \o SubSeq(@, i + 1, Len(@)),
                   ![c].parent = p]

\* ContractDefinition.documentation (setter), on heap hp
setDocumentation(hp, h, value) ==
    LET old == documentation(h)
    IN  IF value.kind = "node"
        THEN LET hp1 == [hp EXCEPT ![h].docString = DocUndefined]
             IN  IF old.kind = "node"
                 THEN IF value.node # old.node
                      THEN replaceChild(hp1, h, value.node, old.node)
                      ELSE hp1
                 ELSE insertAtBeginning(hp1, h, value.node)
        ELSE LET hp1 == IF old.kind = "node" THEN removeChild(hp, h, old.node) ELSE hp
             IN  [hp1 EXCEPT ![h].docString = value]

\* Handles of the nodes of variant t.
OfType(t) == { h \in Handles : heap[h].type = t }

\* Ids of the nodes of the variants in ts.
IdsOf(ts) == { heap[h].id : h \in { x \in Handles : heap[x].type \in ts } }

\* The nodes of the subtree of h.
Subtree(h) == Range(getChildren(h))

MakeSourceUnit(syms) ==
    make([BlankNode(SourceUnit, 0) EXCEPT !.exportedSymbols = syms], {})

MakeStructuredDocumentation ==
    make(BlankNode(StructuredDocumentation, 0), {})

\* new ContractDefinition(...), with no children argument: the constructor
\* ends by assigning this.documentation.
MakeContractDefinition(scope, doc, bases, errs) ==
    LET h == Len(heap) + 1
        node == [BlankNode(ContractDefinition, 0) EXCEPT
                    !.scope = scope,
                    !.linearizedBaseContracts = bases,
                    !.usedErrors = errs,
                    !.docString = IF doc.kind = "string" THEN doc ELSE DocUndefined,
                    !.ownChildren = IF doc.kind = "node" THEN <<doc.node>> ELSE <<>>]
    IN  make(node, IF doc.kind = "node" THEN {doc.node} ELSE {})

MakeIdentifier(ref) ==
    make([BlankNode(Identifier, 0) EXCEPT !.referencedDeclaration = ref], {})

MakeVariableDeclaration(name, scope, type, value) ==
    make([BlankNode(VariableDeclaration, 0) EXCEPT
            !.name = name, !.scope = scope, !.vType = type, !.vValue = value],
         {type, value} \ {0})

MakeParameterList ==
    make(BlankNode(ParameterList, 0), {})

\* new ErrorDefinition(...): stores its fields, then acceptChildren()
MakeErrorDefinition(params, doc) ==
    make([BlankNode(ErrorDefinition, 0) EXCEPT
            !.vParameters = params, !.documentation = doc],
         {params} \cup (IF doc.kind = "node" THEN {doc.node} ELSE {}))

MakeStructDefinition(scope) ==
    make([BlankNode(StructDefinition, 0) EXCEPT !.scope = scope], {})

MakeImportDirective(scope, sourceUnit) ==
    make([BlankNode(ImportDirective, 0) EXCEPT
            !.scope = scope, !.sourceUnit = sourceUnit], {})

\* struct.vMembers.push(member); struct.acceptChildren()
PushMember(s, m) ==
    /\ heap[s].type = StructDefinition
    /\ heap[m].type = VariableDeclaration
    /\ heap[m].parent = 0
    /\ heap' = [heap EXCEPT ![s].vMembers = Append(@, m), ![m].parent = s]
    /\ res' = NoResult
    /\ UNCHANGED <<map, lastId, other, proc, cache>>

\* The subtree of h with every node after its children.
\* Variant of copyArgs that takes the children last to first.
copyArgsLastFirst(h) ==
    [i \in DOMAIN children(h) |-> children(h)[Len(children(h)) + 1 - i]]

\* The nodes among the constructor arguments of h, in argument order: copy
\* recreates them in this order before it recreates h. An event or error takes
\* its parameters before its documentation, a function its returns before its
\* override specifier; elsewhere the order is that of the children.
copyArgs(h) ==
    CASE heap[h].type \in {EventDefinition, ErrorDefinition} ->
            pickNodes(<<heap[h].vParameters, docNodeOf(h)>>)
      [] heap[h].type = FunctionDefinition ->
            pickNodes(<<heap[h].vParameters, heap[h].vReturnParameters,
                        heap[h].vOverrideSpecifier, heap[h].vBody>>)
      [] OTHER -> children(h)

RECURSIVE postOrder(_)
postOrder(h) ==
    Flatten([i \in DOMAIN copyArgs(h) |-> postOrder(copyArgs(h)[i])]) \o <<h>>

\* Position of x in the sequence s.
IndexOf(s, x) == CHOOSE i \in DOMAIN s : s[i] = x

\* The order in which copy recreates the nodes of the subtree of r, hence the
\* order of the ids it draws: children before their parent.
copyOrder(r) == postOrder(r)

\* The object copy creates for node h of the subtree of r.
cloneOf(r, h) == IF h = 0 THEN 0 ELSE Len(heap) + IndexOf(copyOrder(r), h)

\* Variant of newId that starts at the last id already handed out.
newIdReuse(r, h) == lastId + IndexOf(copyOrder(r), h) - 1

\* The fresh id copy gives the clone of node h of the subtree of r.
newId(r, h) == lastId + IndexOf(copyOrder(r), h)

\* Variant of remapId that keeps every id as it is.
remapIdKeep(r, id) == id

\* The id copy writes where the original holds id: the clone's id when id
\* names a node of the subtree of r, else id itself.
remapId(r, id) ==
    IF \E h \in Subtree(r) : heap[h].id = id
    THEN newId(r, CHOOSE h \in Subtree(r) : heap[h].id = id)
    ELSE id

\* Variant of remapNullable that drops the null entries.
remapNullableDense(r, ids) ==
    LET dense == SelectSeq(ids, LAMBDA id : id # 0)
    IN  [i \in DOMAIN dense |-> remapId(r, dense[i])]

\* The list copy writes for a list of ids that may hold nulls: position by
\* position, null for null.
remapNullable(r, ids) ==
    [i \in DOMAIN ids |-> IF ids[i] = 0 THEN 0 ELSE remapId(r, ids[i])]

\* Variant of recreate that does not hand the name on.
recreateUnnamed(h) == [heap[h] EXCEPT !.name = ""]

\* The attributes copy reads off the original h to recreate it: every one,
\* as it is.
recreate(h) == heap[h]

\* The clone of node h of the subtree of r.
cloneNode(r, h) ==
    LET n == recreate(h)
        ps == { p \in Subtree(r) : h \in Range(children(p)) }
    IN  [ n EXCEPT
            !.id = newId(r, h),
            !.parent = IF h = r \/ ps = {} THEN 0 ELSE cloneOf(r, CHOOSE p \in ps : TRUE),
            !.ownChildren = [i \in DOMAIN @ |-> cloneOf(r, @[i])],
            !.vMembers = [i \in DOMAIN @ |-> cloneOf(r, @[i])],
            !.vParameters = cloneOf(r, @),
            !.vType = cloneOf(r, @),
            !.vValue = cloneOf(r, @),
            !.vDeclarations = [i \in DOMAIN @ |-> cloneOf(r, @[i])],
            !.vInitialValue = cloneOf(r, @),
            !.vCondition = cloneOf(r, @),
            !.vBody = cloneOf(r, @),
            !.vLeftExpression = cloneOf(r, @),
            !.vRightExpression = cloneOf(r, @),
            !.vOverrideSpecifier = cloneOf(r, @),
            !.vReturnParameters = cloneOf(r, @),
            !.assignments = remapNullable(r, @),
            !.documentation = IF @.kind = "node" THEN DocNode(cloneOf(r, @.node)) ELSE @,
            !.scope = remapId(r, @),
            !.sourceUnit = remapId(r, @),
            !.referencedDeclaration = remapId(r, @),
            !.linearizedBaseContracts = [i \in DOMAIN @ |-> remapId(r, @[i])],
            !.usedErrors = [i \in DOMAIN @ |-> remapId(r, @[i])],
            !.exportedSymbols = { [name |-> e.name, id |-> remapId(r, e.id)] : e \in @ } ]

\* ASTNodeFactory.copy(r), in a store of at most bound nodes
CopyWithin(r, bound) ==
    LET order == copyOrder(r)
        k == Len(order)
    IN  /\ Len(heap) + k <= bound
        /\ \A j \in 1..k : locate(lastId + j) = 0
        /\ heap' = heap \o [j \in 1..k |-> cloneNode(r, order[j])]
        /\ map' = [id \in Ids |->
                    IF \E j \in 1..k : heap'[Len(heap) + j].id = id
                    THEN Len(heap) + (CHOOSE j \in 1..k : heap'[Len(heap) + j].id = id)
                    ELSE map[id]]
        /\ lastId' = lastId + k
        /\ res' = [NoResult EXCEPT !.op = "copy", !.node = r,
                                   !.clone = cloneOf(r, r), !.lenBefore = Len(heap)]
        /\ UNCHANGED <<other, proc, cache>>

\* ASTNodeFactory.copy(r)
Copy(r) == CopyWithin(r, MaxHeap)

\* ASTNodeFactory.copy(r) when an id it draws is taken: registration fails at
\* the first such id; the m clones recreated before it may stay registered,
\* and the counter stands at the last id drawn.
CopyFails(r, m, drawn) ==
    LET order == copyOrder(r)
        k == Len(order)
        taken == { j \in 1..k : locate(lastId + j) # 0 }
        first == CHOOSE j \in taken : \A i \in taken : j <= i
        made == [j \in 1..m |->
                    LET c == cloneNode(r, order[j])
                    IN  [c EXCEPT !.parent = IF @ > Len(heap) + m THEN 0 ELSE @]]
    IN  /\ Len(heap) + k <= MaxHeap
        /\ taken # {}
        /\ m \in {0, first - 1}
        /\ drawn \in {m, first}
        /\ heap' = heap \o made
        /\ map' = [id \in Ids |->
                    IF id \in (lastId + 1)..(lastId + m)
                    THEN Len(heap) + (id - lastId)
                    ELSE map[id]]
        /\ lastId' = lastId + drawn
        /\ res' = [NoResult EXCEPT !.op = "copyFailed", !.node = r,
                                   !.lenBefore = Len(heap)]
        /\ UNCHANGED <<other, proc, cache>>

\* context.id = offset, on a context that holds nothing yet
SetCounter(offset) ==
    /\ heap = <<>>
    /\ lastId = 0
    /\ lastId' = offset
    /\ UNCHANGED <<heap, map, res, other, proc, cache>>

\* ASTReader: a node that comes with its id is constructed and registered;
\* ASTContext.register fails when the id is taken.
ReadNode(type, id) ==
    /\ Len(heap) < MaxNodes
    /\ locate(id) = 0
    /\ heap' = Append(heap, BlankNode(type, id))
    /\ map' = [map EXCEPT ![id] = Len(heap) + 1]
    /\ res' = NoResult
    /\ UNCHANGED <<lastId, other, proc, cache>>

\* ASTReader bound to the second context: as ReadNode, into that context.
ReadOther(type, id) ==
    /\ Len(heap) < MaxNodes
    /\ other[id] = 0
    /\ heap' = Append(heap, BlankNode(type, id))
    /\ other' = [other EXCEPT ![id] = Len(heap) + 1]
    /\ res' = NoResult
    /\ UNCHANGED <<map, lastId, proc, cache>>

\* The ids a context map holds.
idsOf(m) == { id \in DOMAIN m : m[id] # 0 }

\* The ids both contexts hold.
sharedIds == idsOf(map) \cap idsOf(other)

\* Variant of Merge that registers the nodes of the second context one by
\* one, in id order, and stops at the first id that is taken.
MergeEager ==
    LET first == IF sharedIds = {} THEN MaxId + 1
                 ELSE CHOOSE id \in sharedIds : \A x \in sharedIds : id <= x
        moved == { id \in idsOf(other) : id < first }
    IN  /\ map' = [id \in Ids |-> IF id \in moved THEN other[id] ELSE map[id]]
        /\ other' = [id \in Ids |-> IF id \in moved THEN 0 ELSE other[id]]
        /\ res' = [NoResult EXCEPT
                        !.op = IF sharedIds = {} THEN "merge" ELSE "mergeFailed"]
        /\ UNCHANGED <<heap, lastId, proc, cache>>

\* Merging the second context into the first: fails with DuplicateId when
\* the two share an id, with neither context touched; otherwise every node of
\* the second context is registered in the first.
Merge ==
    IF sharedIds # {}
    THEN /\ res' = [NoResult EXCEPT !.op = "mergeFailed"]
         /\ UNCHANGED <<heap, map, lastId, other, proc, cache>>
    ELSE /\ map' = [id \in Ids |-> IF other[id] # 0 THEN other[id] ELSE map[id]]
         /\ other' = [id \in Ids |-> 0]
         /\ res' = [NoResult EXCEPT !.op = "merge"]
         /\ UNCHANGED <<heap, lastId, proc, cache>>

MakePragmaDirective ==
    make(BlankNode(PragmaDirective, 0), {})

\* A structural mutation of container p: the new heap, and a record of the
\* call (the node put in, or taken out by removeChild, and the node replaced).
Mutated(op, p, c, old, hp) ==
    /\ heap' = hp
    /\ res' = [NoResult EXCEPT !.op = op, !.node = p, !.clone = c, !.old = old]
    /\ UNCHANGED <<map, lastId, other, proc, cache>>

\* What the insertions ask of their arguments here: p is a container, c is
\* not yet in its list and does not hold p in its subtree.
CanInsert(p, c) ==
    /\ heap[p].type \in ContainerTypes
    /\ p \notin Subtree(c)
    /\ c \notin Range(heap[p].ownChildren)

DoAppendChild(p, c) ==
    CanInsert(p, c) /\ Mutated("appendChild", p, c, 0, appendChild(heap, p, c))

DoInsertAtBeginning(p, c) ==
    CanInsert(p, c) /\ Mutated("insertAtBeginning", p, c, 0, insertAtBeginning(heap, p, c))

DoInsertBefore(p, c, ref) ==
    /\ CanInsert(p, c)
    /\ ref \in Range(heap[p].ownChildren)
    /\ Mutated("insertBefore", p, c, 0, insertBefore(heap, p, c, ref))

DoInsertAfter(p, c, ref) ==
    /\ CanInsert(p, c)
    /\ ref \in Range(heap[p].ownChildren)
    /\ Mutated("insertAfter", p, c, 0, insertAfter(heap, p, c, ref))

DoReplaceChild(p, new, old) ==
    /\ CanInsert(p, new)
    /\ old \in Range(heap[p].ownChildren)
    /\ Mutated("replaceChild", p, new, old, replaceChild(heap, p, new, old))

DoRemoveChild(p, c) ==
    /\ heap[p].type \in ContainerTypes
    /\ c \in Range(heap[p].ownChildren)
    /\ Mutated("removeChild", p, c, 0, removeChild(heap, p, c))

\* p.appendChild(c)
AppendChild(p, c) ==
    /\ heap[p].type \in ContainerTypes
    /\ p \notin Subtree(c)
    /\ c \notin Range(heap[p].ownChildren)
    /\ heap' = appendChild(heap, p, c)
    /\ res' = NoResult
    /\ UNCHANGED <<map, lastId, other, proc, cache>>

\* contract.documentation = value
SetDocumentation(h, value) ==
    /\ heap[h].type = ContractDefinition
    /\ value.kind = "node" =>
            /\ heap[value.node].type = StructuredDocumentation
            /\ value.node \notin Range(heap[h].ownChildren) \/ value = documentation(h)
    /\ heap' = setDocumentation(heap, h, value)
    /\ heap' # heap
    /\ res' = NoResult
    /\ UNCHANGED <<map, lastId, other, proc, cache>>

\* context.unregister(node)
Unregister(h) ==
    /\ contains(h)
    /\ Cardinality({ x \in Handles : ~contains(x) }) < MaxUnregistered
    /\ map' = [map EXCEPT ![heap[h].id] = 0]
    /\ res' = NoResult
    /\ UNCHANGED <<heap, lastId, other, proc, cache>>

\* isSane(unit, ctx), which runs checkSane(unit, ctx)
IsSane(u) ==
    /\ heap[u].type = SourceUnit
    /\ res' = [NoResult EXCEPT !.op = "isSane", !.node = u,
                               !.check = checkSane(u), !.sane = isSane(u)]
    /\ UNCHANGED <<heap, map, lastId, other, proc, cache>>

-----------------------------------------------------------------------------
(* NativeCompiler.compile: the child process, its events and the promise    *)

\* Number of data events a stream of the child process delivers.
MaxChunks == 2

\* No compile call has been made.
NoProcess ==
    [status |-> "none", stdout |-> <<>>, stderr |-> <<>>, arrived |-> <<>>,
     code |-> 0, promise |-> "pending", value |-> <<>>, settles |-> 0,
     closeFollows |-> FALSE]

\* Exit code of a child process that a signal ended (null).
NullCode == -1

\* Exit code passed on when the process could not be spawned (an errno).
SpawnErrno == -2

ExitCodes == {0, 1, NullCode}

\* Data the child writes, as strings of characters.
StdoutChunks == {<<"{">>, <<"}">>, <<"[">>, <<"]">>, <<"{", "}">>}
StderrChunks == {<<"e">>}

\* JSON.parse over the texts the chunks can form: an object without members,
\* or an array of one value or none; anything else is a SyntaxError.
RECURSIVE JSONparse(_)
JSONparse(text) ==
    IF text = <<"{", "}">> THEN <<"object">>
    ELSE IF Len(text) >= 2 /\ text[1] = "[" /\ text[Len(text)] = "]"
    THEN LET inner == SubSeq(text, 2, Len(text) - 1)
         IN  IF inner = <<>> THEN <<"array">>
             ELSE IF JSONparse(inner) = <<"SyntaxError">> THEN <<"SyntaxError">>
             ELSE <<"array", JSONparse(inner)>>
    ELSE <<"SyntaxError">>

\* reject(reason) / resolve(value) of the promise compile returns: the first
\* call settles it, and every call is counted.
settle(p, how, value) ==
    [p EXCEPT !.promise = IF p.promise = "pending" THEN how ELSE p.promise,
              !.value = IF p.promise = "pending" THEN value ELSE p.value,
              !.settles = p.settles + 1]

\* The listener of the child's close event.
onClose(p, code) ==
    IF code # 0 THEN settle(p, "rejected", <<"exit code">>)
    ELSE IF p.stderr # <<>> THEN settle(p, "rejected", <<"stderr">>)
    ELSE IF JSONparse(p.stdout) = <<"SyntaxError">>
         THEN settle(p, "rejected", <<"SyntaxError">>)
         ELSE settle(p, "resolved", JSONparse(p.stdout))

\* compiler.compile(input): the child is spawned, the input written to its
\* stdin and the listeners are put on stdout, stderr and the child. The
\* spawn gives a running process, or none when the binary cannot be started.
NativeCompile(starts) ==
    /\ proc.status = "none"
    /\ proc' = [NoProcess EXCEPT !.status = IF starts THEN "running" ELSE "failed"]
    /\ UNCHANGED <<heap, map, lastId, res, other, cache>>

\* child.stdout emits data
StdoutData(chunk) ==
    /\ proc.status \in {"running", "exited"}
    /\ Len(proc.arrived) < MaxChunks
    /\ proc' = [proc EXCEPT !.stdout = @ \o chunk, !.arrived = Append(@, chunk)]
    /\ UNCHANGED <<heap, map, lastId, res, other, cache>>

\* child.stderr emits data
StderrData(chunk) ==
    /\ proc.status \in {"running", "exited"}
    /\ Len(proc.stderr) < MaxChunks
    /\ proc' = [proc EXCEPT !.stderr = @ \o chunk]
    /\ UNCHANGED <<heap, map, lastId, res, other, cache>>

\* The child process ends; what its streams still hold is delivered before
\* the close event.
Exit(code) ==
    /\ proc.status = "running"
    /\ proc' = [proc EXCEPT !.status = "exited", !.code = code]
    /\ UNCHANGED <<heap, map, lastId, res, other, cache>>

\* The child emits close, and the listener runs.
Close ==
    /\ proc.status = "exited"
    /\ proc' = [onClose(proc, proc.code) EXCEPT !.status = "closed"]
    /\ UNCHANGED <<heap, map, lastId, res, other, cache>>

\* The child that could not be spawned emits error. The child has no listener
\* for it, so the emit throws; whether a close event follows is not fixed.
SpawnError(follows) ==
    /\ proc.status = "failed"
    /\ proc' = [proc EXCEPT !.status = "errored", !.code = SpawnErrno,
                            !.closeFollows = follows]
    /\ UNCHANGED <<heap, map, lastId, res, other, cache>>

\* The close event after a failed spawn, where one follows.
CloseAfterError ==
    /\ proc.status = "errored"
    /\ proc.closeFollows
    /\ proc' = [onClose(proc, proc.code) EXCEPT !.status = "closed"]
    /\ UNCHANGED <<heap, map, lastId, res, other, cache>>

-----------------------------------------------------------------------------
(* getCompilerForVersion: the compiler cache and the calls that fill it     *)

\* Number of getCompilerForVersion calls in a run.
MaxCalls == 2

\* Versions asked for; a version and a kind give one cache path, so a
\* version stands for the pair.
CachedVersions == {"0.4.13", "0.8.0"}

\* The cache directory without files, no write stream open, no call made.
EmptyCache ==
    [files |-> [v \in CachedVersions |-> "absent"],
     streams |-> [v \in CachedVersions |-> 0],
     calls |-> <<>>]

\* A call on version v: where it is, and what it met on its way.
NewCall(v) ==
    [version |-> v, pc |-> "md", existed |-> FALSE, requested |-> FALSE,
     wrote |-> FALSE, file |-> "absent", beingWritten |-> FALSE,
     concurrent |-> FALSE, uncached |-> cache.files[v] # "complete"]

\* The calls that came to an end: a compiler or undefined returned, or thrown.
Ended == {"returned", "undefined", "threw"}

Calls == DOMAIN cache.calls

\* The calls on version v that are under way.
running(v) == { i \in Calls : cache.calls[i].version = v /\ cache.calls[i].pc \notin Ended }

\* getCompilerForVersion(version, kind) up to its first await: undefined when
\* the platform has no prefix, else the metadata of the platform is awaited.
\* Calls on the same version that are under way at once are marked.
GetCompilerForVersion(v, prefix) ==
    /\ Len(cache.calls) < MaxCalls
    /\ LET call == [NewCall(v) EXCEPT
                        !.pc = IF prefix = "undefined" THEN "undefined" ELSE "md",
                        !.concurrent = prefix # "undefined" /\ running(v) # {}]
           marked == [i \in Calls |->
                        IF prefix # "undefined" /\ i \in running(v)
                        THEN [cache.calls[i] EXCEPT !.concurrent = TRUE]
                        ELSE cache.calls[i]]
       IN  cache' = [cache EXCEPT !.calls = Append(marked, call)]
    /\ UNCHANGED <<heap, map, lastId, res, other, proc>>

\* The call after the metadata came: undefined when the metadata lists no
\* file for the version; a compiler when a file exists at the cache path;
\* else the binary is asked for.
afterMD(c, listed, file, streams) ==
    IF ~listed THEN [c EXCEPT !.pc = "undefined"]
    ELSE IF file # "absent"
    THEN [c EXCEPT !.pc = "returned", !.existed = TRUE, !.file = file,
                   !.beingWritten = streams > 0]
    ELSE [c EXCEPT !.pc = "request", !.requested = TRUE]

\* getCompilerMDForPlatform resolves.
MDArrives(i, listed) ==
    /\ cache.calls[i].pc = "md"
    /\ LET v == cache.calls[i].version
       IN  cache' = [cache EXCEPT !.calls[i] = afterMD(@, listed, cache.files[v], cache.streams[v])]
    /\ UNCHANGED <<heap, map, lastId, res, other, proc>>

\* getCompilerMDForPlatform or the GET request rejects: the call throws.
AwaitRejects(i) ==
    /\ cache.calls[i].pc \in {"md", "request"}
    /\ cache' = [cache EXCEPT !.calls[i].pc = "threw"]
    /\ UNCHANGED <<heap, map, lastId, res, other, proc>>

\* The response arrives: a write stream is made on the cache path, which
\* creates the file with mode 0o555 or empties the one that is there, and
\* the response is piped into it. A file that is there is not writable for
\* its mode: opening it fails unless the user may write to any file.
ResponseArrives(i, opens) ==
    /\ cache.calls[i].pc = "request"
    /\ LET v == cache.calls[i].version
       IN  /\ cache.files[v] = "absent" => opens
           /\ cache' = IF opens
                    THEN [cache EXCEPT !.calls[i].pc = "pipe", !.calls[i].wrote = TRUE,
                                    !.files[v] = "partial", !.streams[v] = @ + 1]
                    ELSE [cache EXCEPT !.calls[i].pc = "threw"]
    /\ UNCHANGED <<heap, map, lastId, res, other, proc>>

\* The pipeline resolves: the stream is closed and the compiler returned.
\* The file is whole once no other stream writes to it.
PipelineResolves(i) ==
    /\ cache.calls[i].pc = "pipe"
    /\ LET v == cache.calls[i].version
           file == IF cache.streams[v] = 1 THEN "complete" ELSE "partial"
       IN  cache' = [cache EXCEPT !.calls[i].pc = "returned", !.calls[i].file = file,
                            !.calls[i].beingWritten = cache.streams[v] > 1,
                            !.files[v] = file, !.streams[v] = @ - 1]
    /\ UNCHANGED <<heap, map, lastId, res, other, proc>>

\* The pipeline rejects midway: the stream is closed, the call throws and
\* what was written stays at the cache path.
PipelineRejects(i) ==
    /\ cache.calls[i].pc = "pipe"
    /\ LET v == cache.calls[i].version
       IN  cache' = [cache EXCEPT !.calls[i].pc = "threw", !.streams[v] = @ - 1]
    /\ UNCHANGED <<heap, map, lastId, res, other, proc>>

\* The platforms: one with a prefix, one without.
Prefixes == {"linux-amd64", "undefined"}

\* What the awaits of a call may do.
CallSteps ==
    \/ \E i \in Calls : \E listed \in BOOLEAN : MDArrives(i, listed)
    \/ \E i \in Calls : AwaitRejects(i)
    \/ \E i \in Calls : \E opens \in BOOLEAN : ResponseArrives(i, opens)
    \/ \E i \in Calls : PipelineResolves(i)
    \/ \E i \in Calls : PipelineRejects(i)

-----------------------------------------------------------------------------
(* Initial state and specifications                                         *)

Init ==
    /\ heap = <<>>
    /\ map = [i \in Ids |-> 0]
    /\ lastId = 0
    /\ res = NoResult
    /\ other = [i \in Ids |-> 0]
    /\ proc = NoProcess
    /\ cache = EmptyCache

\* Documentation arguments: undefined, a string, or a StructuredDocumentation
\* node that has no parent yet.
DocArgs ==
    {DocUndefined} \cup { DocStr(t) : t \in DocTexts }
    \cup { DocNode(d) : d \in { x \in OfType(StructuredDocumentation) : heap[x].parent = 0 } }

\* Exported-symbol maps: empty, or one name bound to the id the next node
\* will get, or to an id that is never assigned.
SymArgs ==
    { {} } \cup { {[name |-> "S", id |-> i]} : i \in {lastId + 2, MaxId} }

Next ==
    \/ MakeSourceUnit({})
    \/ MakeStructuredDocumentation
    \/ \E scope \in IdsOf({SourceUnit}), doc \in DocArgs :
            MakeContractDefinition(scope, doc, <<>>, <<>>)
    \/ \E p, c \in Handles : AppendChild(p, c)
    \/ \E h \in Handles, value \in DocArgs : SetDocumentation(h, value)
    \/ \E h \in Handles : Unregister(h)
    \/ \E u \in Handles : IsSane(u)

Spec == Init /\ [][Next]_vars

(* Well-formed factory use only: a contract is created for an existing     *)
(* unit and appended to that unit; documentation goes through the          *)
(* constructor or the setter; nothing is unregistered or shared.           *)
WellFormedAppend(p, c) ==
    /\ heap[p].type = SourceUnit
    /\ heap[c].type = ContractDefinition
    /\ heap[c].parent = 0
    /\ heap[c].scope = heap[p].id

NextWF ==
    \/ MakeSourceUnit({})
    \/ MakeStructuredDocumentation
    \/ \E scope \in IdsOf({SourceUnit}), doc \in DocArgs :
            MakeContractDefinition(scope, doc, <<>>, <<>>)
    \/ \E p, c \in Handles : WellFormedAppend(p, c) /\ AppendChild(p, c)
    \/ \E h \in Handles, value \in DocArgs : SetDocumentation(h, value)
    \/ \E u \in Handles : IsSane(u)

SpecWF == Init /\ [][NextWF]_vars

(* Reference attributes: one unit, contracts, variable declarations and    *)
(* identifiers whose id-valued attributes name registered nodes or the     *)
(* never-assigned id MaxId.                                                *)
ContractArgs ==
    LET unit == heap[CHOOSE u \in OfType(SourceUnit) : TRUE].id
        self == lastId + 1
    IN  { [scope |-> unit,  bases |-> <<>>,      errs |-> <<>>],
          [scope |-> unit,  bases |-> <<self>>,  errs |-> <<self>>],
          [scope |-> unit,  bases |-> <<MaxId>>, errs |-> <<>>],
          [scope |-> unit,  bases |-> <<self>>,  errs |-> <<MaxId>>],
          [scope |-> MaxId, bases |-> <<>>,      errs |-> <<>>] }

NextRefs ==
    \/ OfType(SourceUnit) = {} /\ \E syms \in SymArgs : MakeSourceUnit(syms)
    \/ OfType(SourceUnit) # {} /\ \E a \in ContractArgs :
            MakeContractDefinition(a.scope, DocUndefined, a.bases, a.errs)
    \/ OfType(SourceUnit) # {} /\
       \E ref \in {0, MaxId} \cup IdsOf({ContractDefinition, VariableDeclaration}) :
            MakeIdentifier(ref)
    \/ OfType(SourceUnit) # {} /\
       \E scope \in IdsOf({SourceUnit}) \cup {MaxId},
          value \in {0} \cup { i \in OfType(Identifier) : heap[i].parent = 0 } :
            MakeVariableDeclaration("a", scope, 0, value)
    \/ \E p, c \in Handles :
            /\ heap[c].parent = 0
            /\ heap[c].type # Identifier
            /\ AppendChild(p, c)
    \/ \E u \in Handles : IsSane(u)

SpecRefs == Init /\ [][NextRefs]_vars

(* Copying: units with imports, structs and their members, each node       *)
(* placed where its scope says, and copies of any subtree.                 *)
PlacedByScope(p, c) ==
    /\ heap[c].parent = 0
    /\ heap[c].type \in {StructDefinition, ImportDirective}
    /\ heap[c].scope = heap[p].id

\* Names given to struct members.
MemberNames == {"a", "b"}

NextCopy ==
    \/ MakeSourceUnit({})
    \/ \E scope \in IdsOf({SourceUnit}) : MakeStructDefinition(scope)
    \/ \E name \in MemberNames, scope \in IdsOf({StructDefinition}) :
            MakeVariableDeclaration(name, scope, 0, 0)
    \/ \E scope, unit \in IdsOf({SourceUnit}) : MakeImportDirective(scope, unit)
    \/ \E p, c \in Handles : PlacedByScope(p, c) /\ AppendChild(p, c)
    \/ \E s, m \in Handles : heap[m].scope = heap[s].id /\ PushMember(s, m)
    \/ \E r \in Handles : Copy(r)

SpecCopy == Init /\ [][NextCopy]_vars

(* Ids: a context whose counter may start at an offset and that may hold    *)
(* nodes a reader registered under their own ids before the factory is     *)
(* used, then constructors and copies.                                     *)
Offsets == {2}

\* Ids the nodes of the compiler output carry.
ReaderIds == {1, MaxNodes + 1, MaxHeap}

NextIds ==
    \/ \E offset \in Offsets : SetCounter(offset)
    \/ \E id \in ReaderIds :
            /\ \A h \in Handles : heap[h].type = PragmaDirective
            /\ ReadNode(PragmaDirective, id)
    \/ lastId + 1 < MaxId /\ MakeSourceUnit({})
    \/ lastId + 1 < MaxId /\ \E scope \in IdsOf({SourceUnit}) : MakeStructDefinition(scope)
    \/ \E p, c \in Handles : PlacedByScope(p, c) /\ AppendChild(p, c)
    \/ \E r \in Handles : lastId + Len(copyOrder(r)) < MaxId /\ Copy(r)
    \/ \E r \in Handles, m, drawn \in 0..MaxClones :
            lastId + Len(copyOrder(r)) < MaxId /\ CopyFails(r, m, drawn)

SpecIds == Init /\ [][NextIds]_vars

(* Two contexts filled by readers, and merges of the second into the first. *)
NextMerge ==
    \/ \E id \in ReaderIds : ReadNode(PragmaDirective, id)
    \/ \E id \in ReaderIds : ReadOther(PragmaDirective, id)
    \/ Merge

SpecMerge == Init /\ [][NextMerge]_vars

\* The assignments array of the JSON js, whose declarations have the ids
\* base + 1, base + 2, ...: a position names a declaration or is null (0).
jsonAssignments(js, base) ==
    [i \in DOMAIN js.assignments |->
        IF js.assignments[i] = 0 THEN 0 ELSE base + js.assignments[i]]

\* ASTReader on the JSON of a VariableDeclarationStatement: the declarations,
\* the initial value when there is one, then the statement itself, each with
\* the id the JSON gives it; the children get the statement as parent.
ReadVariableDeclarationStatement(js) ==
    LET base == Len(heap)
        n == js.declarations
        k == n + (IF js.initialValue THEN 1 ELSE 0) + 1
        st == base + k
        init == IF js.initialValue THEN base + n + 1 ELSE 0
        node(j) ==
            IF j <= n
            THEN [BlankNode(VariableDeclaration, base + j) EXCEPT !.parent = st]
            ELSE IF j < k
            THEN [BlankNode(Literal, base + j) EXCEPT !.parent = st]
            ELSE [BlankNode(VariableDeclarationStatement, base + j) EXCEPT
                    !.assignments = jsonAssignments(js, base),
                    !.vDeclarations = [i \in 1..n |-> base + i],
                    !.vInitialValue = init]
    IN  /\ base + k <= MaxNodes
        /\ lastId >= base + k
        /\ \A j \in 1..k : locate(base + j) = 0
        /\ heap' = heap \o [j \in 1..k |-> node(j)]
        /\ map' = [id \in Ids |-> IF id \in (base + 1)..(base + k) THEN id ELSE map[id]]
        /\ res' = [NoResult EXCEPT
                    !.op = "read", !.node = st,
                    !.json = [assignments |-> jsonAssignments(js, base),
                              declarations |-> [i \in 1..n |-> base + i],
                              initialValue |-> init]]
        /\ UNCHANGED <<lastId, other, proc, cache>>

\* Statements the reader is given: one or two declarations, an assignments
\* array that is dense, has one omitted position, or is a lone null, with or
\* without an initial value.
StatementInputs ==
    { [declarations |-> 1, assignments |-> a, initialValue |-> b] :
            a \in {<<1>>, <<0>>, <<0, 1>>, <<1, 0>>}, b \in BOOLEAN }
    \cup
    { [declarations |-> 2, assignments |-> a, initialValue |-> b] :
            a \in {<<1, 2>>, <<1, 0, 2>>, <<0, 1, 2>>, <<1, 2, 0>>}, b \in BOOLEAN }

(* Statements: the counter is set above the ids of the JSON, statements    *)
(* are read, and subtrees are copied.                                      *)
NextStmt ==
    \/ SetCounter(MaxNodes)
    \/ \E js \in StatementInputs : ReadVariableDeclarationStatement(js)
    \/ \E r \in Handles : Copy(r)

SpecStmt == Init /\ [][NextStmt]_vars

\* The child fields of a variant, in the order of its constructor's use.
fields(type) ==
    CASE type = WhileStatement -> <<"vCondition", "vBody">>
      [] type = BinaryOperation -> <<"vLeftExpression", "vRightExpression">>
      [] type = FunctionDefinition ->
            <<"vParameters", "vOverrideSpecifier", "vReturnParameters", "vBody">>
      [] type \in {EventDefinition, ErrorDefinition} -> <<"documentation", "vParameters">>

\* The order in which the children are made before the node itself, as
\* positions of fields(type): the tests make a function's parameters, returns,
\* override and body in that order, and an event's parameters before its
\* documentation.
createOrder(type) ==
    CASE type = FunctionDefinition -> <<1, 3, 2, 4>>
      [] type \in {EventDefinition, ErrorDefinition} -> <<2, 1>>
      [] OTHER -> <<1, 2>>

\* The children of t are made, then the node of variant t.type with them as
\* its fields; an argument is a variant to make, "undefined", or "string"
\* for a textual documentation.
Construct(t) ==
    LET base == Len(heap)
        fs == fields(t.type)
        isNode(i) == t.args[i] \notin {"undefined", "string"}
        created == SelectSeq(createOrder(t.type), isNode)
        k == Len(created) + 1
        handleAt(i) ==
            IF isNode(i) THEN base + (CHOOSE j \in DOMAIN created : created[j] = i) ELSE 0
        handleFor(f) ==
            IF \E i \in DOMAIN fs : fs[i] = f
            THEN handleAt(CHOOSE i \in DOMAIN fs : fs[i] = f)
            ELSE 0
        doc == IF \E i \in DOMAIN fs : fs[i] = "documentation" /\ t.args[i] = "string"
               THEN DocStr("doc")
               ELSE IF handleFor("documentation") # 0
               THEN DocNode(handleFor("documentation"))
               ELSE DocUndefined
        node(j) ==
            IF j < k
            THEN [BlankNode(t.args[created[j]], lastId + j) EXCEPT !.parent = base + k]
            ELSE [BlankNode(t.type, lastId + k) EXCEPT
                    !.documentation = doc,
                    !.vParameters = handleFor("vParameters"),
                    !.vCondition = handleFor("vCondition"),
                    !.vBody = handleFor("vBody"),
                    !.vLeftExpression = handleFor("vLeftExpression"),
                    !.vRightExpression = handleFor("vRightExpression"),
                    !.vOverrideSpecifier = handleFor("vOverrideSpecifier"),
                    !.vReturnParameters = handleFor("vReturnParameters")]
    IN  /\ base + k <= MaxHeap
        /\ \A j \in 1..k : locate(lastId + j) = 0
        /\ heap' = heap \o [j \in 1..k |-> node(j)]
        /\ map' = [id \in Ids |->
                    IF id \in (lastId + 1)..(lastId + k) THEN base + (id - lastId) ELSE map[id]]
        /\ lastId' = lastId + k
        /\ res' = [NoResult EXCEPT
                    !.op = "construct", !.node = base + k,
                    !.args = [i \in DOMAIN fs |-> handleAt(i)]]
        /\ UNCHANGED <<other, proc, cache>>

\* The nodes made: loops and operations over expressions and statements,
\* functions with and without override and body, events and errors with no,
\* textual or structured documentation.
TreeInputs ==
    { [type |-> WhileStatement, args |-> <<c, b>>] :
            c \in {BinaryOperation, Literal}, b \in {Block, ExpressionStatement} }
    \cup
    { [type |-> BinaryOperation, args |-> <<l, r>>] :
            l \in {Literal, Identifier}, r \in {Literal, Identifier} }
    \cup
    { [type |-> FunctionDefinition, args |-> <<ParameterList, o, ParameterList, b>>] :
            o \in {"undefined", OverrideSpecifier}, b \in {"undefined", Block} }
    \cup
    { [type |-> ty, args |-> <<d, ParameterList>>] :
            ty \in {EventDefinition, ErrorDefinition},
            d \in {"undefined", "string", StructuredDocumentation} }

(* Children of the variants: nodes are made with their children, and       *)
(* subtrees are copied.                                                    *)
NextChildren ==
    \/ \E t \in TreeInputs : Construct(t)
    \/ \E r \in Handles : Copy(r)

SpecChildren == Init /\ [][NextChildren]_vars

\* Number of nodes Construct(t) makes.
treeSize(t) == 1 + Cardinality({ i \in DOMAIN t.args : t.args[i] \notin {"undefined", "string"} })

(* Ids of clones: one node is made with its children by a fresh factory,   *)
(* then subtrees of it are copied, the store having room for a clone of    *)
(* every node.                                                             *)
NextCloneIds ==
    \/ /\ heap = <<>>
       /\ \E t \in TreeInputs : treeSize(t) <= MaxNodes /\ Construct(t)
    \/ \E r \in Handles : heap[r].id <= MaxNodes /\ CopyWithin(r, 2 * MaxNodes)

SpecCloneIds == Init /\ [][NextCloneIds]_vars

-----------------------------------------------------------------------------
(* compile/utils.ts                                                        *)

\* consistentlyContainsOneOf(sources, ...properties): a section is the set of
\* its property names.
consistentlyContainsOneOf(sections, properties) ==
    \E property \in properties : \A section \in sections : property \in section

\* error.match("Warning"): a text is its sequence of words.
matchWarning(text) == \E i \in DOMAIN text : text[i] = "Warning"

\* The entries detectCompileErrors pushes.
isPushed(error) ==
    \/ error.kind = "object" /\ error.severity = "error"
    \/ error.kind = "string" /\ ~matchWarning(error.text)

\* detectCompileErrors(data): typeof null is "object", so reading the
\* severity of a null entry throws a TypeError.
detectCompileErrors(data) ==
    IF data.errors.kind # "array"
    THEN [threw |-> FALSE, errors |-> <<>>]
    ELSE IF \E i \in DOMAIN data.errors.entries : data.errors.entries[i].kind = "null"
    THEN [threw |-> TRUE, errors |-> <<>>]
    ELSE [threw |-> FALSE, errors |-> SelectSeq(data.errors.entries, isPushed)]

\* The version loop from candidate i on, failures being the entries pushed
\* so far. outs[j] is what compile() does for the j-th candidate of the
\* strategy: no compiler for the platform (compile throws), or the JSON the
\* compiler returns.
RECURSIVE tryVersions(_, _, _)
tryVersions(outs, i, failures) ==
    IF i > Len(outs)
    THEN [NoOutcome EXCEPT !.kind = "CompileFailedError", !.failures = failures,
                           !.tried = [j \in 1..Len(outs) |-> j],
                           !.compilerCalls = Len(outs)]
    ELSE IF ~outs[i].available
    THEN [NoOutcome EXCEPT !.kind = "Error", !.tried = [j \in 1..i |-> j],
                           !.compilerCalls = i - 1]
    ELSE LET errors == detectCompileErrors(outs[i].data).errors
         IN  IF Len(errors) = 0
             THEN [NoOutcome EXCEPT !.kind = "return", !.data = outs[i].data,
                                    !.compilerVersion = "selected", !.selected = i,
                                    !.tried = [j \in 1..i |-> j], !.compilerCalls = i]
             ELSE tryVersions(outs, i + 1,
                              Append(failures, [compilerVersion |-> i, errors |-> errors]))

\* Variant of compileVersions that skips a candidate without compiler.
compileVersionsSkipping(outs) ==
    tryVersions(SelectSeq(outs, LAMBDA o : o.available), 1, <<>>)

\* Variant of compileVersions that starts at the second candidate.
compileVersionsFromSecond(outs) ==
    tryVersions(outs, 2, <<>>)

\* The version loop of compileSourceString and compileJsonData.
compileVersions(outs) == tryVersions(outs, 1, <<>>)

\* compileSourceString(fileName, sourceCode, version, remapping, ...)
compileSourceString(outs) == compileVersions(outs)

\* compileJsonData(fileName, data, version, ...), outs being what the
\* compiler returns for the selected versions.
compileJsonData(data, outs) ==
    IF data.sources.kind # "object"
    THEN [NoOutcome EXCEPT !.kind = "Error"]
    ELSE IF consistentlyContainsOneOf(data.sources.sections, {"ast", "legacyAST", "AST"})
    THEN LET detected == detectCompileErrors(data)
         IN  IF detected.threw
             THEN [NoOutcome EXCEPT !.kind = "TypeError"]
             ELSE IF Len(detected.errors) # 0
             THEN [NoOutcome EXCEPT !.kind = "CompileFailedError"]
             ELSE [NoOutcome EXCEPT !.kind = "return", !.data = data]
    ELSE IF consistentlyContainsOneOf(data.sources.sections, {"source"})
    THEN compileVersions(outs)
    ELSE [NoOutcome EXCEPT !.kind = "Error"]

\* One call per run, on a fresh process.
CompileJsonData(data, outs) ==
    /\ res = NoResult
    /\ res' = [NoResult EXCEPT !.op = "compileJsonData", !.data = data, !.outs = outs,
                               !.outcome = compileJsonData(data, outs)]
    /\ UNCHANGED <<heap, map, lastId, other, proc, cache>>

CompileSourceString(outs) ==
    /\ res = NoResult
    /\ res' = [NoResult EXCEPT !.op = "compileSourceString", !.outs = outs,
                               !.outcome = compileSourceString(outs)]
    /\ UNCHANGED <<heap, map, lastId, other, proc, cache>>

\* Entries of an errors array: objects with a severity or without one, null,
\* a number, and strings of solc < 0.5.
ErrorEntries ==
    { [kind |-> "object", severity |-> sv, text |-> <<>>] :
            sv \in {"error", "warning", "undefined"} }
    \cup { [kind |-> k, severity |-> "undefined", text |-> <<>>] : k \in {"null", "number"} }
    \cup { [kind |-> "string", severity |-> "undefined", text |-> t] :
            t \in {<<"Warning", "unused">>, <<"Error", "expected">>, <<>>} }

ErrorArrays == UNION { [1..n -> ErrorEntries] : n \in 0..MaxErrors }

ErrorsFields ==
    { [kind |-> k, entries |-> <<>>] : k \in {"missing", "other"} }
    \cup { [kind |-> "array", entries |-> es] : es \in ErrorArrays }

\* Sections of a sources object, by the properties they have.
Sections ==
    {{"ast"}, {"legacyAST"}, {"source"}, {"ast", "source"}, {"legacyAST", "source"}, {}}

SourcesFields ==
    {[kind |-> "missing", sections |-> {}]}
    \cup { [kind |-> "object", sections |-> ss] :
            ss \in { x \in SUBSET Sections : Cardinality(x) <= MaxFiles } }

JsonData == { [sources |-> so, errors |-> er] : so \in SourcesFields, er \in ErrorsFields }

\* What compile() does for one version: the compiler returns JSON with no
\* errors, with a warning or with an error, or there is no compiler.
CompilerOutputs ==
    { [available |-> TRUE,
       data |-> [sources |-> [kind |-> "object", sections |-> {{"ast"}}], errors |-> er]] :
        er \in { [kind |-> "missing", entries |-> <<>>],
                 [kind |-> "array",
                  entries |-> <<[kind |-> "object", severity |-> "warning", text |-> <<>>]>>],
                 [kind |-> "array",
                  entries |-> <<[kind |-> "object", severity |-> "error", text |-> <<>>]>>] } }
    \cup {[available |-> FALSE, data |-> NoData]}

\* What compile() does for the candidates of a strategy that yields n of them.
OutputsFor(n) == [1..n -> CompilerOutputs]

NextCompile ==
    /\ res = NoResult
    /\ \E data \in JsonData : \E outs \in OutputsFor(1) : CompileJsonData(data, outs)

SpecCompile == Init /\ [][NextCompile]_vars

\* JSON that is a compile request: every section has a source and no
\* typed-AST field is in every section.
SourceData ==
    { d \in JsonData :
        /\ d.sources.kind = "object"
        /\ ~consistentlyContainsOneOf(d.sources.sections, {"ast", "legacyAST", "AST"})
        /\ consistentlyContainsOneOf(d.sources.sections, {"source"})
        /\ d.errors.kind # "array" }

(* The candidate-version loop: one call of compileSourceString or of       *)
(* compileJsonData on a compile request, over every run of compile()       *)
(* outcomes for zero to MaxVersions candidates.                            *)
NextVersions ==
    \/ \E n \in 0..MaxVersions : \E outs \in OutputsFor(n) : CompileSourceString(outs)
    \/ \E data \in SourceData, n \in 0..MaxVersions :
            \E outs \in OutputsFor(n) : CompileJsonData(data, outs)

SpecVersions == Init /\ [][NextVersions]_vars

-----------------------------------------------------------------------------

(* types/utils.ts. A type node is a tuple: <<"bool">>, <<"uint">>,          *)
(* <<"bytes">> and <<"string">> (PackedArrayType), <<"user", definition>>,  *)
(* <<"array", elementT, size>>, <<"mapping", keyType, valueType>>,          *)
(* <<"pointer", to, location>>, <<"tuple">>.                                *)

Storage == "storage"
Memory == "memory"
CallData == "calldata"

DataLocation == {Storage, Memory, CallData}

\* specializeType(type, loc); an assertion that fails gives <<"AssertionError">>.
RECURSIVE specializeType(_, _)
specializeType(type, loc) ==
    CASE type[1] \in {"pointer", "tuple"} -> <<"AssertionError">>
      [] type[1] \in {"bytes", "string"} -> <<"pointer", type, loc>>
      [] type[1] = "array" ->
            <<"pointer", <<"array", specializeType(type[2], loc), type[3]>>, loc>>
      [] type[1] = "user" ->
            IF type[2] = "undefined" THEN <<"AssertionError">>
            ELSE IF type[2] = "struct" THEN <<"pointer", type, loc>>
            ELSE type
      [] type[1] = "mapping" ->
            <<"pointer",
              <<"mapping", specializeType(type[2], Memory), specializeType(type[3], Storage)>>,
              Storage>>
      [] OTHER -> type

RECURSIVE generalizeType(_)

\* Variant of generalizeType that leaves the element type of an array alone.
generalizeTypeShallow(type) ==
    CASE type[1] = "pointer" -> <<generalizeType(type[2])[1], type[3]>>
      [] type[1] = "mapping" ->
            <<<<"mapping", generalizeType(type[2])[1], generalizeType(type[3])[1]>>, Storage>>
      [] OTHER -> <<type, "undefined">>

\* generalizeType(type): the pair of the general type and the location.
generalizeType(type) ==
    CASE type[1] = "pointer" -> <<generalizeType(type[2])[1], type[3]>>
      [] type[1] = "array" ->
            <<<<"array", generalizeType(type[2])[1], type[3]>>, "undefined">>
      [] type[1] = "mapping" ->
            <<<<"mapping", generalizeType(type[2])[1], generalizeType(type[3])[1]>>, Storage>>
      [] OTHER -> <<type, "undefined">>

\* generalizeType(specializeType(type, loc))
SpecializeAndGeneralize(type, loc) ==
    /\ res = NoResult
    /\ res' = [NoResult EXCEPT
                !.op = "generalizeType", !.typeIn = type, !.location = loc,
                !.specialized = specializeType(type, loc),
                !.generalized = generalizeType(specializeType(type, loc))]
    /\ UNCHANGED <<heap, map, lastId, other, proc, cache>>

\* Location-free types without arrays and mappings: value types, bytes and
\* string, user-defined types with a struct, enum or contract definition.
BaseTypes ==
    {<<"bool">>, <<"uint">>, <<"bytes">>, <<"string">>}
    \cup { <<"user", def>> : def \in {"struct", "enum", "contract"} }

\* Sizes of an array type: 0 for a dynamic array.
ArraySizes == {0, 2}

\* Location-free types nested at most d deep; keys of mappings are base types.
RECURSIVE TypesOfDepth(_)
TypesOfDepth(d) ==
    IF d = 0 THEN BaseTypes
    ELSE LET inner == TypesOfDepth(d - 1)
         IN  BaseTypes
             \cup { <<"array", t, size>> : t \in inner, size \in ArraySizes }
             \cup { <<"mapping", k, v>> : k \in BaseTypes, v \in inner }

NextTypes ==
    /\ res = NoResult
    /\ \E type \in TypesOfDepth(MaxDepth), loc \in DataLocation :
            SpecializeAndGeneralize(type, loc)

SpecTypes == Init /\ [][NextTypes]_vars

NextNative ==
    \/ \E starts \in BOOLEAN : NativeCompile(starts)
    \/ \E chunk \in StdoutChunks : StdoutData(chunk)
    \/ \E chunk \in StderrChunks : StderrData(chunk)
    \/ \E code \in ExitCodes : Exit(code)
    \/ Close
    \/ \E follows \in BOOLEAN : SpawnError(follows)
    \/ CloseAfterError

(* The event loop delivers the events that are due: the error of a failed  *)
(* spawn, and the close of a process that ended. Nothing makes a running    *)
(* process end.                                                             *)
SpecNative ==
    /\ Init
    /\ [][NextNative]_vars
    /\ WF_vars(Close)
    /\ WF_vars(\E follows \in BOOLEAN : SpawnError(follows))
    /\ WF_vars(CloseAfterError)

(* The cache used by one call after the other.                              *)
NextCache ==
    \/ /\ \A i \in Calls : cache.calls[i].pc \in Ended
       /\ \E v \in CachedVersions : \E prefix \in Prefixes : GetCompilerForVersion(v, prefix)
    \/ CallSteps

SpecCache == Init /\ [][NextCache]_vars

(* The cache used by calls that are made while others are under way.       *)
NextConcurrent ==
    \/ \E v \in CachedVersions : \E prefix \in Prefixes : GetCompilerForVersion(v, prefix)
    \/ CallSteps

SpecConcurrent == Init /\ [][NextConcurrent]_vars

\* contract.documentation = value, the call recorded
DoSetDocumentation(h, value) ==
    /\ heap[h].type = ContractDefinition
    /\ value.kind = "node" => heap[value.node].type = StructuredDocumentation
    /\ heap' = setDocumentation(heap, h, value)
    /\ res' = [NoResult EXCEPT !.op = "setDocumentation", !.node = h, !.args = <<value>>]
    /\ UNCHANGED <<map, lastId, other, proc, cache>>

\* The values assigned to the documentation of h: none, a string, a
\* StructuredDocumentation without parent, or one that is a child of h.
DocValues(h) ==
    DocArgs \cup { DocNode(d) : d \in Range(filterOwn(h, StructuredDocumentation)) }

(* Documentation of a contract: contracts are made with and without         *)
(* documentation, nodes without parent are appended to them as long as a    *)
(* contract gets no second StructuredDocumentation child that way, and the  *)
(* documentation is assigned.                                               *)
NextDoc ==
    \/ MakeStructuredDocumentation
    \/ MakePragmaDirective
    \/ \E doc \in DocArgs : MakeContractDefinition(0, doc, <<>>, <<>>)
    \/ \E p \in OfType(ContractDefinition), c \in Handles :
            /\ heap[c].parent = 0
            /\ heap[c].type \in {StructuredDocumentation, PragmaDirective}
            /\ heap[c].type = StructuredDocumentation =>
                    filterOwn(p, StructuredDocumentation) = <<>>
            /\ AppendChild(p, c)
    \/ \E h \in Handles : \E value \in DocValues(h) : DoSetDocumentation(h, value)

SpecDoc == Init /\ [][NextDoc]_vars

\* contract.vScope = value, without the context check.
SetVScopeUnchecked(c, v) ==
    /\ heap[c].type = ContractDefinition
    /\ heap' = [heap EXCEPT ![c].scope = heap[v].id]
    /\ res' = [NoResult EXCEPT !.op = "vScope", !.node = c, !.clone = v]
    /\ UNCHANGED <<map, lastId, other, proc, cache>>

\* contract.vScope = value (ContractDefinition.vScope setter); requiredContext
\* throws when the contract itself has no context.
SetVScope(c, v) ==
    /\ heap[c].type = ContractDefinition
    /\ IF ~contains(c) \/ ~contains(v)
       THEN /\ res' = [NoResult EXCEPT !.op = "vScopeThrew", !.node = c, !.clone = v]
            /\ UNCHANGED heap
       ELSE /\ heap' = [heap EXCEPT ![c].scope = heap[v].id]
            /\ res' = [NoResult EXCEPT !.op = "vScope", !.node = c, !.clone = v]
    /\ UNCHANGED <<map, lastId, other, proc, cache>>

(* Scope assignment: units, contracts scoped to a unit, nodes taken out of *)
(* the context, and the vScope setter.                                     *)
NextScope ==
    \/ MakeSourceUnit({})
    \/ \E scope \in IdsOf({SourceUnit}) :
            MakeContractDefinition(scope, DocUndefined, <<>>, <<>>)
    \/ \E h \in Handles : Unregister(h)
    \/ \E c, v \in Handles : SetVScope(c, v)

SpecScope == Init /\ [][NextScope]_vars

(* Structural mutations: units and pragma directives, the directives put   *)
(* into, moved between and taken out of the units.                         *)
NextMut ==
    \/ MakeSourceUnit({})
    \/ MakePragmaDirective
    \/ \E p \in Handles, c \in OfType(PragmaDirective) : DoAppendChild(p, c)
    \/ \E p \in Handles, c \in OfType(PragmaDirective) : DoInsertAtBeginning(p, c)
    \/ \E p, ref \in Handles, c \in OfType(PragmaDirective) : DoInsertBefore(p, c, ref)
    \/ \E p, ref \in Handles, c \in OfType(PragmaDirective) : DoInsertAfter(p, c, ref)
    \/ \E p, old \in Handles, new \in OfType(PragmaDirective) : DoReplaceChild(p, new, old)
    \/ \E p, c \in Handles : DoRemoveChild(p, c)

SpecMut == Init /\ [][NextMut]_vars

----------------------------------------------------------------------------
(* Properties of the sanity checker *)

\* The nodes reachable from the unit of the last isSane call.
Reachable == Subtree(res.node)

\* A reachable node whose parent is not the node that lists it as child.
WrongParent ==
    \E n \in Reachable : \E c \in Range(children(n)) : heap[c].parent # n

\* A reachable node the context does not hold.
OutOfContext == \E n \in Reachable : ~contains(n)

\* The nodes in the named structural relations of h.
relationNodes(h) == UNION { nodesOf(namedRelations(h)[i]) : i \in DOMAIN namedRelations(h) }

\* A reachable non-leaf node whose named relations are not its children.
Uncovered ==
    \E n \in Reachable :
        /\ heap[n].type \notin LeafTypes \cup {Identifier, ImportDirective}
        /\ relationNodes(n) # Range(children(n))

\* The nodes the checked view attributes of h return.
checkedViewNodes(h) ==
    CASE heap[h].type = ContractDefinition ->
            {vScope(h), docNodeOf(h)} \cup Range(vLinearizedBaseContracts(h))
                \cup Range(vUsedErrors(h))
      [] heap[h].type = ImportDirective -> {vScope(h), vSourceUnit(h)}
      [] heap[h].type = ParameterList -> Range(heap[h].ownChildren)
      [] heap[h].type \in {ErrorDefinition, EnumDefinition} -> {vScopeParent(h), docNodeOf(h)}
      [] heap[h].type \in {StructDefinition} -> {vScope(h)}
      [] heap[h].type = VariableDeclaration -> {vScope(h), docNodeOf(h)}
      [] OTHER -> {}

\* A checked view attribute of a reachable node returns a node that is not
\* registered in the context.
ViewOutOfContext ==
    \E n \in Reachable : \E v \in checkedViewNodes(n) \ {0} : ~contains(v)

\* C1: checkSane completes without throwing only if every child of every
\* reachable node has that node as parent, and a reachable child with a
\* different parent makes it throw InsaneASTError.
C1_ParentageOrInsane ==
    res.op = "isSane" =>
        /\ res.check = Ok => ~WrongParent
        /\ WrongParent => res.check = InsaneASTError

\* C3: isSane returns true exactly when checkSane completes, false exactly
\* when checkSane throws InsaneASTError, and re-throws every other error.
C3_IsSaneMirrorsCheckSane ==
    res.op = "isSane" =>
        /\ res.sane = "true" <=> res.check = Ok
        /\ res.sane = "false" <=> res.check = InsaneASTError
        /\ res.sane = "throws" <=> res.check = Error

C3_Witness == res.op = "isSane" /\ res.check = Error /\ res.sane = "throws"

\* C4: when a checked view attribute returns a node that is not registered in
\* the context, checkSane fails with InsaneASTError and isSane returns false.
C4_ViewOutOfContextIsInsane ==
    (res.op = "isSane" /\ ViewOutOfContext) =>
        (res.check = InsaneASTError /\ res.sane = "false")

\* C5: checkSane completes without throwing only if every reachable node is
\* registered in the context, and a reachable node the context does not
\* contain makes it throw InsaneASTError.
C5_MembershipOrInsane ==
    res.op = "isSane" =>
        /\ res.check = Ok => ~OutOfContext
        /\ OutOfContext => res.check = InsaneASTError

\* C7: checkSane passes only if the named structural relations of every
\* reachable non-leaf node hold exactly its direct children, and throws
\* InsaneASTError otherwise.
C7_CoverageOrInsane ==
    res.op = "isSane" =>
        /\ res.check = Ok => ~Uncovered
        /\ Uncovered => res.check = InsaneASTError

\* C2: the sanity checker accepts every tree built by well-formed factory
\* operations, among them a unit holding a contract documented by a string.
C2_WellFormedAccepted == res.op = "isSane" => res.check = Ok

\* A scalar reference attribute f agrees with its view v.
scalarAgrees(f, v) == v # 0 /\ heap[v].id = f

\* A list reference attribute fs agrees with its view vs.
listAgrees(fs, vs) ==
    /\ Len(fs) = Len(vs)
    /\ \A i \in DOMAIN fs : vs[i] # 0 /\ heap[vs[i]].id = fs[i]

\* Every reference attribute of h agrees with its view.
refsAgree(h) ==
    CASE heap[h].type = ContractDefinition ->
            /\ scalarAgrees(heap[h].scope, vScope(h))
            /\ listAgrees(heap[h].linearizedBaseContracts, vLinearizedBaseContracts(h))
            /\ listAgrees(heap[h].usedErrors, vUsedErrors(h))
      [] heap[h].type \in {VariableDeclaration, StructDefinition} ->
            scalarAgrees(heap[h].scope, vScope(h))
      [] heap[h].type = ImportDirective ->
            /\ scalarAgrees(heap[h].scope, vScope(h))
            /\ scalarAgrees(heap[h].sourceUnit, vSourceUnit(h))
      [] heap[h].type = Identifier ->
            (heap[h].referencedDeclaration # 0 /\ vReferencedDeclaration(h) # 0)
                => scalarAgrees(heap[h].referencedDeclaration, vReferencedDeclaration(h))
      [] OTHER -> TRUE

\* C6: checkSane passes only if every reference attribute of every reachable
\* node agrees with its view: a number names a registered node with that id,
\* a list of numbers names as many nodes with those ids in order; on an
\* Identifier only when referencedDeclaration is non-null and the view is
\* defined.
C6_ReferencesAgreeWithViews ==
    (res.op = "isSane" /\ res.check = Ok) => \A n \in Reachable : refsAgree(n)

\* A passing check of a unit that holds a contract with a non-empty list
\* reference.
C6_Witness ==
    /\ res.op = "isSane" /\ res.check = Ok
    /\ \E n \in Reachable :
        /\ heap[n].type = ContractDefinition
        /\ heap[n].linearizedBaseContracts # <<>>

\* A passing check of a unit that holds an Identifier whose
\* referencedDeclaration is non-null and names no registered node.
DanglingIdentifierPasses ==
    /\ res.op = "isSane" /\ res.check = Ok
    /\ \E n \in Reachable :
        /\ heap[n].type = Identifier
        /\ heap[n].referencedDeclaration # 0
        /\ vReferencedDeclaration(n) = 0

\* C8: checkSane passes only if, on every reachable SourceUnit,
\* exportedSymbols and vExportedSymbols have the same names and each name's
\* node is the node the context holds under the id in exportedSymbols.
C8_ExportedSymbolsCoherent ==
    (res.op = "isSane" /\ res.check = Ok) =>
        \A n \in Reachable : heap[n].type = SourceUnit =>
            /\ { s.name : s \in heap[n].exportedSymbols }
                    = { v.name : v \in vExportedSymbols(n) }
            /\ \A s \in heap[n].exportedSymbols :
                    /\ locate(s.id) # 0
                    /\ [name |-> s.name, node |-> locate(s.id)] \in vExportedSymbols(n)

C8_Witness ==
    /\ res.op = "isSane" /\ res.check = Ok
    /\ heap[res.node].exportedSymbols # {}

expectedRef(id) ==
    LET os == getChildren(res.node)
        cs == getChildren(res.clone)
    IN  IF \E i \in DOMAIN os : heap[os[i]].id = id
        THEN heap[cs[CHOOSE i \in DOMAIN os : heap[os[i]].id = id]].id
        ELSE id

\* C10: copy rewrites every referential attribute to the id of the clone
\* when the node it names lies in the copied subtree, and keeps the original
\* id when the node lies outside.
C10_ReferencesRemapped ==
    res.op = "copy" =>
        LET os == getChildren(res.node)
            cs == getChildren(res.clone)
        IN  /\ Len(cs) = Len(os)
            /\ \A i \in DOMAIN os :
                LET o == heap[os[i]]
                    c == heap[cs[i]]
                IN  /\ c.type = o.type
                    /\ c.scope = expectedRef(o.scope)
                    /\ c.sourceUnit = expectedRef(o.sourceUnit)
                    /\ c.referencedDeclaration = expectedRef(o.referencedDeclaration)
                    /\ c.linearizedBaseContracts =
                        [j \in DOMAIN o.linearizedBaseContracts |->
                            expectedRef(o.linearizedBaseContracts[j])]
                    /\ c.usedErrors =
                        [j \in DOMAIN o.usedErrors |-> expectedRef(o.usedErrors[j])]

\* A copied struct with a member: the member's scope names the struct (inside
\* the copy), the struct's scope names the declaring node (outside the copy).
C10_Witness ==
    /\ res.op = "copy"
    /\ heap[res.node].type = StructDefinition
    /\ heap[res.node].vMembers # <<>>
    /\ heap[heap[res.node].vMembers[1]].scope = heap[res.node].id
    /\ heap[heap[res.clone].vMembers[1]].scope = heap[res.clone].id
    /\ heap[res.clone].scope = heap[res.node].scope
    /\ vScope(res.clone) \notin Subtree(res.node)

\* A copied unit with an import of another unit: the import's scope names the
\* copied unit, its sourceUnit names the other unit.
CopiedImportKeepsSourceUnit ==
    /\ res.op = "copy"
    /\ heap[res.node].type = SourceUnit
    /\ \E i \in DOMAIN heap[res.node].ownChildren :
        LET o == heap[heap[res.node].ownChildren[i]]
            c == heap[heap[res.clone].ownChildren[i]]
        IN  /\ o.type = ImportDirective
            /\ o.sourceUnit # heap[res.node].id
            /\ c.scope = heap[res.clone].id
            /\ c.sourceUnit = o.sourceUnit

\* The structural shape of the subtree of h: variant, value attributes and
\* the shapes of the children in order.
RECURSIVE shape(_)
shape(h) ==
    [ type |-> heap[h].type,
      name |-> heap[h].name,
      docString |-> heap[h].docString,
      symbols |-> { e.name : e \in heap[h].exportedSymbols },
      kids |-> [i \in DOMAIN children(h) |-> shape(children(h)[i])] ]

CopyOfCopy ==
    /\ res.op = "copy"
    /\ heap[res.node].id > MaxNodes

\* Every node object is the one the context holds under its id: no two node
\* objects share an id.
IdsDistinct ==
    /\ \A h \in Handles : contains(h)
    /\ \A g, h \in Handles : g # h => heap[g].id # heap[h].id

\* A step in which the factory assigns ids assigns lastId + 1 .. lastId', one
\* to each new node, so each exceeds every id the factory assigned before.
IdsIncrease ==
    /\ lastId' >= lastId
    /\ Len(heap') # Len(heap) /\ lastId' # lastId =>
        /\ Len(heap') - Len(heap) <= lastId' - lastId
        /\ \A h \in (Len(heap) + 1)..Len(heap') :
            /\ heap'[h].id > lastId /\ heap'[h].id <= lastId'
            /\ \A g \in (Len(heap) + 1)..Len(heap') :
                    g # h => heap'[g].id # heap'[h].id

\* C13: after any sequence of constructor and copy calls on one context, also
\* one whose counter started at an offset and that holds nodes a reader
\* registered, all registered ids are pairwise distinct and every id the
\* factory assigns is greater than every id it assigned before.
C13_IdsDistinctAndIncreasing == []IdsDistinct /\ [][IdsIncrease]_vars

\* A copy made in a context that holds a node registered under an id above
\* the factory's counter.
C13_Witness ==
    /\ res.op = "copy"
    /\ \E h \in 1..res.lenBefore : heap[h].id > lastId

\* C14: merging a context into another when the two share an id fails with
\* DuplicateId and leaves both contexts as they were: no node registered,
\* unregistered or re-bound.
C14_FailedMergeChangesNothing ==
    [][ /\ sharedIds # {} => res'.op # "merge"
        /\ res'.op = "mergeFailed" =>
            (sharedIds # {} /\ UNCHANGED <<heap, map, other, lastId>>) ]_vars

\* A failed merge of two contexts that share one id and hold others besides.
C14_Witness ==
    /\ res.op = "mergeFailed"
    /\ sharedIds # {}
    /\ idsOf(other) \ sharedIds # {}
    /\ idsOf(map) # {}

MutationOps ==
    {"appendChild", "insertBefore", "insertAfter", "insertAtBeginning",
     "replaceChild", "removeChild"}

\* A node record without its child list and parent pointer.
attributesOf(n) == [n EXCEPT !.ownChildren = <<>>, !.parent = 0]

C16_VScopeSetterChecksContext ==
    [][ res'.op \in {"vScope", "vScopeThrew"} =>
        LET c == res'.node
            v == res'.clone
        IN  /\ ~contains(v) => (res'.op = "vScopeThrew" /\ heap'[c].scope = heap[c].scope)
            /\ (contains(v) /\ contains(c)) =>
                    /\ res'.op = "vScope"
                    /\ heap'[c].scope = heap[v].id
                    /\ locate(heap'[c].scope) = v
            /\ \A h \in Handles \ {c} : heap'[h] = heap[h]
            /\ attributesOf([heap'[c] EXCEPT !.scope = 0]) =
                    attributesOf([heap[c] EXCEPT !.scope = 0])
            /\ UNCHANGED map ]_vars

\* The setter has moved a contract to a unit other than the first one.
C16_Witness ==
    /\ res.op = "vScope"
    /\ vScope(res.node) = res.clone
    /\ heap[res.clone].type = SourceUnit
    /\ \E u \in OfType(SourceUnit) : u < res.clone

\* C17: the assignments of a statement just read are those of the JSON, null
\* positions included; a copy of a statement has nulls at the same positions
\* and, at every other position, the id of the clone of the declaration the
\* original names there.
C17_AssignmentsKeepNulls ==
    /\ res.op = "read" => heap[res.node].assignments = res.json.assignments
    /\ (res.op = "copy" /\ heap[res.node].type = VariableDeclarationStatement) =>
        LET a == heap[res.node].assignments
            b == heap[res.clone].assignments
            ds == heap[res.node].vDeclarations
            cs == heap[res.clone].vDeclarations
        IN  /\ Len(b) = Len(a)
            /\ Len(cs) = Len(ds)
            /\ \A i \in DOMAIN a :
                /\ a[i] = 0 <=> b[i] = 0
                /\ a[i] # 0 =>
                    \E j \in DOMAIN ds :
                        /\ heap[ds[j]].id = a[i]
                        /\ heap[cs[j]].id = b[i]
                        /\ cs[j] > res.lenBefore

\* A statement whose assignments hold a null and a declaration was copied.
C17_Witness ==
    /\ res.op = "copy"
    /\ heap[res.node].type = VariableDeclarationStatement
    /\ \E i, j \in DOMAIN heap[res.clone].assignments :
            heap[res.clone].assignments[i] = 0 /\ heap[res.clone].assignments[j] # 0

\* The ids of the nodes in the list hs.
idsIn(hs) == [i \in DOMAIN hs |-> heap[hs[i]].id]

\* C18: a statement read without initializer has no vInitialValue and its
\* children are its declarations; read with an initializer, its children are
\* its declarations in order and then the initial value. Every statement in
\* the store, copies included, has its children in that order.
C18_StatementChildren ==
    /\ res.op = "read" =>
        LET st == res.node
        IN  /\ idsIn(heap[st].vDeclarations) = res.json.declarations
            /\ res.json.initialValue = 0 =>
                    /\ heap[st].vInitialValue = 0
                    /\ idsIn(children(st)) = res.json.declarations
            /\ res.json.initialValue # 0 =>
                    /\ heap[st].vInitialValue # 0
                    /\ idsIn(children(st)) =
                            res.json.declarations \o <<res.json.initialValue>>
            /\ \A i \in DOMAIN children(st) : heap[children(st)[i]].parent = st
    /\ \A st \in OfType(VariableDeclarationStatement) :
            children(st) = heap[st].vDeclarations \o
                (IF heap[st].vInitialValue = 0 THEN <<>> ELSE <<heap[st].vInitialValue>>)

\* A statement with an initializer was read.
C18_Witness ==
    /\ res.op = "read"
    /\ res.json.initialValue # 0
    /\ Len(children(res.node)) = Len(heap[res.node].vDeclarations) + 1

\* The fixed order of the child fields of a variant.
fieldOrder(type) ==
    CASE type = WhileStatement -> <<"vCondition", "vBody">>
      [] type = BinaryOperation -> <<"vLeftExpression", "vRightExpression">>
      [] type = FunctionDefinition ->
            <<"vParameters", "vOverrideSpecifier", "vReturnParameters", "vBody">>
      [] type \in {EventDefinition, ErrorDefinition} -> <<"documentation", "vParameters">>
      [] OTHER -> <<>>

\* The node a view of h returns, 0 when it returns none; the documentation
\* view returns a node only when it is a StructuredDocumentation.
viewNode(h, f) == IF f = "documentation" THEN docNodeOf(h) ELSE heap[h][f]

\* The views of h in the field order of its variant.
viewsInOrder(h) ==
    [i \in DOMAIN fieldOrder(heap[h].type) |-> viewNode(h, fieldOrder(heap[h].type)[i])]

\* C19: the children of a node are the nodes its views return, in the fixed
\* field order of its variant, absent views left out; a textual or undefined
\* documentation is not a child; the fields of a node just made are the nodes
\* it was given.
C19_ChildrenFollowFieldOrder ==
    /\ \A h \in Handles :
        fieldOrder(heap[h].type) # <<>> =>
            /\ children(h) = SelectSeq(viewsInOrder(h), LAMBDA v : v # 0)
            /\ \A i \in DOMAIN children(h) : heap[children(h)[i]].parent = h
            /\ docOf(h).kind # "node" =>
                    \A i \in DOMAIN children(h) :
                        heap[children(h)[i]].type # StructuredDocumentation
    /\ res.op = "construct" =>
            /\ viewsInOrder(res.node) = res.args
            /\ children(res.node) = SelectSeq(res.args, LAMBDA v : v # 0)

\* An event or error was made with a structured documentation that was made
\* after its parameter list: the ids of its children do not follow the field
\* order.
C19_Witness ==
    /\ res.op = "construct"
    /\ heap[res.node].type \in {EventDefinition, ErrorDefinition}
    /\ Len(children(res.node)) = 2
    /\ heap[children(res.node)[1]].type = StructuredDocumentation
    /\ heap[children(res.node)[1]].id > heap[children(res.node)[2]].id

\* data.sources has an AST in every section.
AstBearing(data) ==
    /\ data.sources.kind = "object"
    /\ consistentlyContainsOneOf(data.sources.sections, {"ast", "legacyAST", "AST"})

\* The errors array holds an object of severity "error" or a string that is
\* not a warning.
HoldsError(data) ==
    /\ data.errors.kind = "array"
    /\ \E i \in DOMAIN data.errors.entries :
        LET e == data.errors.entries[i]
        IN  \/ e.kind = "object" /\ e.severity = "error"
            \/ e.kind = "string" /\ ~matchWarning(e.text)

\* What C20 asks of a call on the JSON data.
CompileAsClaimed(data, outcome) ==
    /\ outcome.compilerCalls = 0
    /\ HoldsError(data) => outcome.kind = "CompileFailedError"
    /\ ~HoldsError(data) =>
            /\ outcome.kind = "return"
            /\ outcome.data = data
            /\ outcome.compilerVersion = "undefined"

\* C20: compileJsonData on AST-bearing input invokes no compiler and fails
\* with CompileFailedError exactly when the errors array holds an object of
\* severity "error" or a string that is not a warning; otherwise it returns
\* the input data with compilerVersion undefined (a missing or non-array
\* errors field holds no error).
C20_CompileJsonDataDetectsErrors ==
    (res.op = "compileJsonData" /\ AstBearing(res.data)) =>
        CompileAsClaimed(res.data, res.outcome)

\* A call on AST-bearing JSON whose errors array holds nothing but a null.
C20_Witness ==
    /\ res.op = "compileJsonData"
    /\ AstBearing(res.data)
    /\ Len(res.data.errors.entries) = 1
    /\ res.data.errors.entries[1].kind = "null"

\* The errors array has a null entry.
HasNullEntry(data) ==
    /\ data.errors.kind = "array"
    /\ \E i \in DOMAIN data.errors.entries : data.errors.entries[i].kind = "null"

\* What C20 asks holds of every call whose errors array has no null entry.
CompileAsClaimedWithoutNull ==
    (res.op = "compileJsonData" /\ AstBearing(res.data) /\ ~HasNullEntry(res.data)) =>
        CompileAsClaimed(res.data, res.outcome)

TypedAstFields == {"ast", "legacyAST", "AST"}

\* Every section carries exactly one typed-AST field, and the sections do not
\* all carry the same one.
MixedSchemas(data) ==
    /\ data.sources.kind = "object"
    /\ \A section \in data.sources.sections :
            Cardinality(section \cap TypedAstFields) = 1
    /\ \E s1, s2 \in data.sources.sections :
            s1 \cap TypedAstFields # s2 \cap TypedAstFields

\* C21: compiler JSON whose sections use different typed-AST fields is
\* accepted: compileJsonData returns the data for reading, without failing and
\* without treating it as a compile request (the errors array holding neither
\* an error nor a null).
C21_MixedSchemasAccepted ==
    (/\ res.op = "compileJsonData"
     /\ MixedSchemas(res.data)
     /\ ~HoldsError(res.data)
     /\ ~HasNullEntry(res.data)) =>
        /\ res.outcome.kind = "return"
        /\ res.outcome.data = res.data
        /\ res.outcome.tried = <<>>

\* Mixed schemas whose sections all have a source are a compile request.
MixedSchemasCompiled ==
    /\ res.op = "compileJsonData"
    /\ MixedSchemas(res.data)
    /\ res.outcome.tried # <<>>

\* A call of one of the two functions that run the version loop.
VersionLoopRan == res.op \in {"compileSourceString", "compileJsonData"}

\* Candidate i has a compiler and its output has no compile errors.
CleanAt(i) == res.outs[i].available /\ ~HoldsError(res.outs[i].data)

\* The first candidate with a clean output, 0 when there is none.
FirstClean ==
    IF \E i \in DOMAIN res.outs : CleanAt(i)
    THEN CHOOSE i \in DOMAIN res.outs : CleanAt(i) /\ \A j \in 1..(i - 1) : ~CleanAt(j)
    ELSE 0

\* The last candidate the loop has to reach.
LastNeeded == IF FirstClean = 0 THEN Len(res.outs) ELSE FirstClean

\* C23: the candidate versions are tried one at a time in selection order;
\* the output of the first version without compile errors is returned and no
\* later version is invoked; when every candidate yields errors, or there is
\* none, CompileFailedError is thrown with one failure per tried version, in
\* selection order (every candidate reached having a compiler).
C23_FirstCleanVersionWins ==
    (VersionLoopRan /\ \A i \in 1..LastNeeded : res.outs[i].available) =>
        /\ res.outcome.tried = [i \in 1..LastNeeded |-> i]
        /\ FirstClean # 0 =>
                /\ res.outcome.kind = "return"
                /\ res.outcome.selected = FirstClean
                /\ res.outcome.data = res.outs[FirstClean].data
                /\ res.outcome.failures = <<>>
        /\ FirstClean = 0 =>
                /\ res.outcome.kind = "CompileFailedError"
                /\ Len(res.outcome.failures) = Len(res.outs)
                /\ \A i \in DOMAIN res.outs :
                        /\ res.outcome.failures[i].compilerVersion = i
                        /\ res.outcome.failures[i].errors # <<>>

\* The second candidate was returned after the first one yielded errors.
C23_Witness ==
    /\ VersionLoopRan
    /\ Len(res.outs) = 2
    /\ res.outs[1].available /\ HoldsError(res.outs[1].data)
    /\ res.outcome.kind = "return"
    /\ res.outcome.selected = 2

\* The first candidate without compiler, 0 when every candidate has one.
FirstUnavailable ==
    IF \E i \in DOMAIN res.outs : ~res.outs[i].available
    THEN CHOOSE i \in DOMAIN res.outs :
            ~res.outs[i].available /\ \A j \in 1..(i - 1) : res.outs[j].available
    ELSE 0

\* C27: a candidate without compiler that the loop reaches aborts the call
\* with the error compile throws: no CompileFailedError, no failure recorded
\* for it, no later candidate tried.
C27_UnavailableCompilerAborts ==
    (/\ VersionLoopRan
     /\ FirstUnavailable # 0
     /\ \A j \in 1..(FirstUnavailable - 1) : HoldsError(res.outs[j].data)) =>
        /\ res.outcome.kind = "Error"
        /\ res.outcome.failures = <<>>
        /\ res.outcome.tried = [i \in 1..FirstUnavailable |-> i]
        /\ res.outcome.compilerCalls = FirstUnavailable - 1

\* The first candidate had no compiler while the second would have compiled
\* without errors.
C27_Witness ==
    /\ VersionLoopRan
    /\ Len(res.outs) = 2
    /\ ~res.outs[1].available
    /\ CleanAt(2)
    /\ res.outcome.kind = "Error"

\* C22: for every location-free type t without pointer and tuple types and
\* every data location loc, the first component of
\* generalizeType(specializeType(t, loc)) is t.
C22_GeneralizeInvertsSpecialize ==
    res.op = "generalizeType" => res.generalized[1] = res.typeIn

\* A mapping to arrays of bytes or string was specialized, which puts three
\* pointers into it, and generalized.
C22_Witness ==
    /\ res.op = "generalizeType"
    /\ res.typeIn[1] = "mapping"
    /\ res.typeIn[3][1] = "array"
    /\ res.typeIn[3][2][1] \in {"bytes", "string"}
    /\ res.specialized[1] = "pointer"
    /\ res.specialized[2][3][1] = "pointer"
    /\ res.specialized[2][3][2][2][1] = "pointer"

\* The ids of the nodes in hs increase along hs.
idsIncrease(hp, hs) ==
    \A i, j \in DOMAIN hs : i < j => hp[hs[i]].id < hp[hs[j]].id

\* A copy step gives the k clones the ids m..m+k-1, m being the next fresh
\* id, every clone child a smaller id than its clone parent, and the clone of
\* the root m+k-1.
CloneIdsChildrenFirst ==
    LET k == Len(heap') - Len(heap)
        clones == (Len(heap) + 1)..Len(heap')
    IN  /\ { heap'[c].id : c \in clones } = (lastId + 1)..(lastId + k)
        /\ k = Len(copyOrder(res'.node))
        /\ \A c \in clones : heap'[c].parent # 0 => heap'[c].id < heap'[heap'[c].parent].id
        /\ heap'[res'.clone].id = lastId + k

\* Variants whose constructor takes the child nodes in another order than
\* the children list has them.
ArgumentOrderDiffers == {EventDefinition, ErrorDefinition, FunctionDefinition}

\* C24 as stated: copy allocates clone ids children-first, the ids m..m+k-1,
\* child below parent, root last, and the siblings under every clone get
\* increasing ids in child order.
C24_SiblingIdsInChildOrder ==
    [][ res'.op = "copy" =>
        /\ CloneIdsChildrenFirst
        /\ \A c \in (Len(heap) + 1)..Len(heap') : idsIncrease(heap', (children(c))') ]_vars

\* C24, amended: the same, the siblings getting increasing ids in child order
\* under every clone whose constructor takes its children in child order;
\* the parameter list of an event or error is cloned before its
\* documentation, which comes first among the children.
C24_CloneIdsChildrenFirst ==
    [][ res'.op = "copy" =>
        /\ CloneIdsChildrenFirst
        /\ \A c \in (Len(heap) + 1)..Len(heap') :
            /\ heap'[c].type \notin ArgumentOrderDiffers =>
                    idsIncrease(heap', (children(c))')
            /\ (heap'[c].type \in {EventDefinition, ErrorDefinition}
                    /\ Len((children(c))') = 2) =>
                    heap'[(children(c))'[2]].id < heap'[(children(c))'[1]].id ]_vars

\* An operation with two operands was copied: the clones of the operands have
\* increasing ids below the id of the clone of the operation.
C24_Witness ==
    /\ res.op = "copy"
    /\ heap[res.clone].type \in {BinaryOperation, WhileStatement}
    /\ Len(children(res.clone)) = 2
    /\ heap[children(res.clone)[1]].id < heap[children(res.clone)[2]].id
    /\ heap[children(res.clone)[2]].id < heap[res.clone].id

\* An event or error with a structured documentation was copied.
DocumentedDefinitionCopied ==
    /\ res.op = "copy"
    /\ heap[res.clone].type \in {EventDefinition, ErrorDefinition}
    /\ Len(children(res.clone)) = 2

\* The StructuredDocumentation children of contract h.
docChildren(h) == filterOwn(h, StructuredDocumentation)

\* The last call assigned value to the documentation of h.
Assigned(h, value) ==
    res.op = "setDocumentation" /\ res.node = h /\ res.args = <<value>>

\* What C25 asks of an assignment to the documentation of h.
GetterReturnsAssigned(h, value) ==
    /\ (documentation(h))' = value
    /\ Len((docChildren(h))') <= 1

\* C25: on a contract with at most one StructuredDocumentation child, after
\* an assignment of a string, undefined or a StructuredDocumentation node the
\* getter returns the assigned value and the contract still has at most one
\* StructuredDocumentation child (so after any sequence of assignments).
C25_GetterReturnsLastAssigned ==
    [][ \A h \in Handles : \A value \in DocValues(h) :
            (Assigned(h, value)' /\ Len(docChildren(h)) <= 1) =>
                GetterReturnsAssigned(h, value) ]_vars

\* The contract does not have a textual documentation and a
\* StructuredDocumentation child at once.
OneDocumentation(h) ==
    heap[h].docString.kind = "undefined" \/ docChildren(h) = <<>>

\* What C25 asks holds of every assignment to a contract that has one
\* documentation at most.
GetterReturnsAssignedFromOne ==
    [][ \A h \in Handles : \A value \in DocValues(h) :
            (Assigned(h, value)' /\ Len(docChildren(h)) <= 1 /\ OneDocumentation(h)) =>
                GetterReturnsAssigned(h, value) ]_vars

\* s with every occurrence of old replaced by new.
Replaced(s, old, new) == [i \in DOMAIN s |-> IF s[i] = old THEN new ELSE s[i]]

\* What C26 asks of an assignment to the documentation of h.
OnlyDocumentationSlotChanges(h, value) ==
    LET kids == heap[h].ownChildren
        docs == docChildren(h)
        involved == Range(docs) \cup (IF value.kind = "node" THEN {value.node} ELSE {})
    IN  /\ (value.kind = "node" /\ docs = <<>>) =>
                heap'[h].ownChildren = <<value.node>> \o kids
        /\ (value.kind = "node" /\ docs # <<>> /\ value.node # docs[1]) =>
                heap'[h].ownChildren = Replaced(kids, docs[1], value.node)
        /\ (value.kind = "node" /\ docs # <<>> /\ value.node = docs[1]) =>
                heap'[h].ownChildren = kids
        /\ value.kind # "node" =>
                heap'[h].ownChildren =
                    SelectSeq(kids, LAMBDA c : heap[c].type # StructuredDocumentation)
        /\ \A c \in Handles \ involved :
                [heap'[c] EXCEPT !.ownChildren = <<>>, !.docString = DocUndefined] =
                [heap[c] EXCEPT !.ownChildren = <<>>, !.docString = DocUndefined]
        /\ \A c \in Handles \ {h} : heap'[c].ownChildren = heap[c].ownChildren
        /\ \A c \in involved : attributesOf(heap'[c]) = attributesOf(heap[c])

\* C26: an assignment to the documentation of a contract with at most one
\* StructuredDocumentation child changes the child
\* list only in the documentation slot: a StructuredDocumentation is put first
\* when the contract had none, replaces a different one at its position, is
\* left alone when it is the same node, and is removed when a string or
\* undefined is assigned; the other children keep order and parent, and the
\* value attributes are unchanged.
C26_OnlyDocumentationSlotChanges ==
    [][ \A h \in Handles : \A value \in DocValues(h) :
            (Assigned(h, value)' /\ Len(docChildren(h)) <= 1) =>
                OnlyDocumentationSlotChanges(h, value) ]_vars

\* What C26 asks holds of every assignment to a contract that has one
\* documentation at most.
OnlyDocumentationSlotChangesFromOne ==
    [][ \A h \in Handles : \A value \in DocValues(h) :
            (Assigned(h, value)' /\ Len(docChildren(h)) <= 1 /\ OneDocumentation(h)) =>
                OnlyDocumentationSlotChanges(h, value) ]_vars

\* A contract has a textual documentation and a StructuredDocumentation child.
TwoDocumentations ==
    \E h \in OfType(ContractDefinition) : ~OneDocumentation(h)

\* The promise of the compile call is settled.
Settled == proc.promise # "pending"

\* What the child wrote to stdout, in the order of arrival.
Written == Flatten(proc.arrived)

\* A settled promise was settled once, by the close listener, and resolved
\* with the parsed output exactly when the exit code is 0, stderr is empty
\* and the output parses.
SettledOnClose ==
    Settled =>
        /\ proc.status = "closed"
        /\ proc.settles = 1
        /\ proc.promise = "resolved" <=>
                /\ proc.code = 0
                /\ proc.stderr = <<>>
                /\ JSONparse(Written) # <<"SyntaxError">>
        /\ proc.promise = "resolved" => proc.value = JSONparse(Written)

\* The child process is over: it ended, or it could not be started.
ChildOver == proc.status \in {"exited", "failed"}

\* C28: the promise of NativeCompiler.compile is settled once and only by the
\* close listener, resolved with the parsed JSON of the stdout chunks in
\* arrival order iff the exit code is 0, stderr is empty and stdout parses,
\* rejected otherwise; and it is settled eventually once the child process
\* is over, a process that could not be started included.
C28_SettledOnceOnClose == []SettledOnClose /\ (ChildOver ~> Settled)

\* The promise is settled eventually once a child process that was started
\* has ended.
SettledAfterExit == (proc.status = "exited") ~> Settled

\* The child could not be started, its error was thrown, and the promise is
\* left pending.
PendingAfterSpawnError ==
    proc.status = "errored" /\ ~proc.closeFollows /\ ~Settled

\* Call i downloaded only when no file was at the cache path, and the
\* compiler it returned has a completely downloaded file.
CompleteBinary(i) ==
    /\ cache.calls[i].requested => ~cache.calls[i].existed
    /\ cache.calls[i].pc = "returned" => cache.calls[i].file = "complete"

\* C29: getCompilerForVersion downloads only when no file exists at the cache
\* path, and the file of every compiler it returns is a completely downloaded
\* binary, also on a call that follows a download that failed midway.
C29_ReturnsCompleteBinary == \A i \in Calls : CompleteBinary(i)

\* A download of version v was given up midway by a call that ended before
\* call i began.
FailedBefore(i, v) ==
    \E j \in 1..(i - 1) :
        /\ cache.calls[j].version = v
        /\ cache.calls[j].wrote
        /\ cache.calls[j].pc = "threw"

\* What C29 asks holds of every call that follows no download of its version
\* that failed midway.
CompleteBinaryWithoutFailure ==
    \A i \in Calls : ~FailedBefore(i, cache.calls[i].version) => CompleteBinary(i)

\* A call returned a compiler whose file is what a failed download left.
ReturnedAfterFailedDownload ==
    \E i \in Calls :
        /\ cache.calls[i].pc = "returned"
        /\ cache.calls[i].file = "partial"
        /\ FailedBefore(i, cache.calls[i].version)

\* Calls i and j were under way at once for the same version, which was not
\* in the cache for either.
ConcurrentUncached(i, j) ==
    /\ i # j
    /\ cache.calls[i].version = cache.calls[j].version
    /\ cache.calls[i].concurrent /\ cache.calls[j].concurrent
    /\ cache.calls[i].uncached /\ cache.calls[j].uncached

\* C30: of two concurrent getCompilerForVersion calls for the same uncached
\* version at most one downloads and writes the cache file, the cache path
\* never has more than one open write stream, and neither call returns a
\* compiler whose file the other is still writing.
C30_OneWriterPerCachePath ==
    /\ \A v \in CachedVersions : cache.streams[v] <= 1
    /\ \A i, j \in Calls :
            ConcurrentUncached(i, j) =>
                /\ ~(cache.calls[i].wrote /\ cache.calls[j].wrote)
                /\ cache.calls[i].pc = "returned" => ~cache.calls[i].beingWritten

\* No call returns a compiler whose file has an open write stream.
NoReturnWhileWritten ==
    \A i \in Calls : cache.calls[i].pc = "returned" => ~cache.calls[i].beingWritten

\* Two write streams are open on one cache path.
TwoWriteStreams == \E v \in CachedVersions : cache.streams[v] > 1

\* Parent consistency over the whole store: a node is in the child list of a
\* container exactly when that container is its parent.
ParentConsistency ==
    \A p, c \in Handles :
        heap[p].type \in ContainerTypes =>
            (c \in Range(heap[p].ownChildren) <=> heap[c].parent = p)

\* The parts of C1, C5 and C7 that state what a passing check implies.
PassImpliesParentage == (res.op = "isSane" /\ res.check = Ok) => ~WrongParent
PassImpliesMembership == (res.op = "isSane" /\ res.check = Ok) => ~OutOfContext
PassImpliesCoverage == (res.op = "isSane" /\ res.check = Ok) => ~Uncovered

====
